---- MODULE Spec2Model ----
(***************************************************************************)
(* State-machine model of the jackbox-server room / mafia game back end.   *)
(*                                                                         *)
(* Part 1 models the devMode implementation (src/unnamed/part_000, lines   *)
(* 1-873) for one room created by host "h".  Part 2 models the grace-timer *)
(* implementation (src/unnamed/part_000, lines 875-1643); its definitions  *)
(* carry the suffix G wherever a name occurs in both implementations.      *)
(***************************************************************************)
EXTENDS Integers, FiniteSets, Sequences, TLC

VARIABLES devMode, hostSocketId, players, playerKeys, hub, mafia, emitted,
          registered, hostGoneTimer, rooms, staleTimers

vars == <<devMode, hostSocketId, players, playerKeys, hub, mafia, emitted, registered,
          hostGoneTimer, rooms, staleTimers>>

\* players: room.players as a function of the client id; playerKeys: the keys
\* of that Map in its iteration order, the order of insertion.

\* emitted: what the last handler sent to the calling connection (an error, an
\* acknowledgement, a view, the role that follows a join or an attach).  What a
\* handler pushes to the whole room or to every player (room:state, hub:state,
\* mafia:tick, the roles of pushRoles) is a function of the state the handler
\* leaves and is not recorded in a variable.  The callback of a timer has no
\* calling connection; emitted holds the room:closed it sends.

\* registered: the room is an entry of the rooms map.  hostGoneTimer: the
\* pending 90 s timer of the room (grace-timer implementation), Null when none
\* is pending; the devMode implementation never removes a room and has no
\* timer.  rooms: the other entries of the rooms map, from room code to room,
\* as host:createRoom fills it.  staleTimers: per room code, the pending
\* timers of the event loop that were armed for a room of rooms which has
\* been deleted since (deleting a room does not clear its timer).
lifeVars == <<registered, hostGoneTimer, rooms, staleTimers>>

\* The room object of the model.
room == <<devMode, hostSocketId, players, playerKeys, hub, mafia>>

(***************************************************************************)
(* Bounds and input sets                                                   *)
(***************************************************************************)
MaxRound == 1

\* The history entries the devMode implementation's room is followed through.
MaxReturns == 1

Null == "null"

\* Every client identity of the model.
AllIds == <<"a", "b", "c", "d", "e", "f", "g">>

HostId == "h"

GameIds == {"a", "b", "c"}

\* A connection: socket.id and the clientId of its handshake.
Conn(c) == [sid |-> "s_" \o c, clientId |-> c]

Roles == {"mafia", "detective", "doctor", "villager"}

NameInputs == {"Ann", " Ann ", ""}

ActionInputs == {"kill", "Save ", "check", "dance"}

RoleInputs == {"mafia", "detective", "doctor", "villager", " Mafia ", "king"}

(***************************************************************************)
(* Helpers                                                                 *)
(***************************************************************************)
EmptyMap == [x \in {} |-> Null]

Put(f, k, v) == [x \in (DOMAIN f) \cup {k} |-> IF x = k THEN v ELSE f[x]]

Remove(f, k) == [x \in (DOMAIN f) \ {k} |-> f[x]]

\* Map.set(k, v): a new key goes to the end, a key of the Map keeps its place
setKey(keys, k) == IF \E i \in DOMAIN keys : keys[i] = k THEN keys ELSE Append(keys, k)

\* Map.delete(k)
deleteKey(keys, k) == SelectSeq(keys, LAMBDA x : x # k)

\* String(name || '').trim().slice(0, 20) on the inputs of NameInputs
trimName(nm) == IF nm = " Ann " THEN "Ann" ELSE nm

\* String(action || '').trim().toLowerCase() on the inputs of ActionInputs
trimLower(x) ==
  CASE x = "Save " -> "save"
    [] x = " Mafia " -> "mafia"
    [] OTHER -> x

safeRoleName(x) == LET r == trimLower(x) IN IF r \in Roles THEN r ELSE Null

\* cid = String(cidRaw || clientId || '').trim()
pickId(cidRaw, clientId) == IF cidRaw # "" THEN cidRaw ELSE clientId

\* isHost that accepts every client that names itself
isHost_AnyClient(conn) == conn.clientId # ""

isHost(conn) == conn.clientId # "" /\ conn.clientId = HostId

NoGame == [started |-> FALSE]

NoResult == [type |-> Null]

NoPerson == [clientId |-> Null, name |-> Null]

NoInvestigation == [by |-> Null, targetId |-> Null, isMafia |-> FALSE]

NoReply == [message |-> Null]

\* The code of the room the model follows.
RoomCode == "ABCD"

\* The codes makeRoomCode(4) of the grace-timer implementation draws from.
CodesG == {"ABCD", "WXYZ"}

\* The timers of deleted rooms that are followed per code.
MaxStale == 1

NoTimers == [code \in CodesG |-> 0]

\* emitRoleToPlayer: io.to(sockId).emit('mafia:role', {roomCode, role})
roleMessage(m, pl, cid) ==
  IF /\ m.started
     /\ cid \in DOMAIN m.assignments
     /\ cid \in DOMAIN pl
     /\ pl[cid].socketId # Null
    THEN [message |-> "mafia:role", to |-> pl[cid].socketId, role |-> m.assignments[cid]]
    ELSE NoReply

\* The loop of mafia:start and of pushMafiaStateToAll over room.players.keys():
\* the mafia:role messages, in the order they are sent, for the players that
\* have a role and a bound socket.
pushRoles(m, pl, keys) ==
  LET ids == SelectSeq(keys, LAMBDA c : roleMessage(m, pl, c) # NoReply)
  IN  [i \in 1..Len(ids) |-> roleMessage(m, pl, ids[i])]

\* The reply of an accepted join to the calling socket, followed by the
\* mafia:role message of emitRoleToPlayer when the game is started.
joinedReply(message, sid, code, roleMsg) ==
  [message |-> message, to |-> sid, roomCode |-> code, followedBy |-> roleMsg]

\* m.alive[cid] as a truth value (undefined for an unknown key)
IsAlive(m, cid) == cid \in DOMAIN m.alive /\ m.alive[cid]

\* room.players.get(id)?.name || 'Player'
nameOf(id) == IF id \in DOMAIN players THEN players[id].name ELSE "Player"

Person(id) == [clientId |-> id, name |-> nameOf(id)]

alivePlayers(m) == {cid \in DOMAIN m.alive : m.alive[cid]}

computeWinner_GT(m) ==
  LET alive == {cid \in DOMAIN m.alive : m.alive[cid]}
      mafiaAlive == {cid \in alive : m.assignments[cid] = "mafia"}
      townAlive == {cid \in alive : m.assignments[cid] # "mafia"}
  IN  IF Cardinality(mafiaAlive) = 0 THEN "town"
      ELSE IF Cardinality(mafiaAlive) > Cardinality(townAlive) THEN "mafia"
      ELSE Null

computeWinner(m) ==
  LET alive == {cid \in DOMAIN m.alive : m.alive[cid]}
      mafiaAlive == {cid \in alive : m.assignments[cid] = "mafia"}
      townAlive == {cid \in alive : m.assignments[cid] # "mafia"}
  IN  IF Cardinality(mafiaAlive) = 0 THEN "town"
      ELSE IF Cardinality(mafiaAlive) >= Cardinality(townAlive) THEN "mafia"
      ELSE Null

(***************************************************************************)
(* startMafiaGame                                                          *)
(***************************************************************************)
Max(a, b) == IF a >= b THEN a ELSE b

Repeat(x, k) == [i \in 1..k |-> x]

minPlayers == IF devMode THEN 2 ELSE 5

mafiaCount_One(n) == 1

\* mafiaCount that deals two mafia roles
mafiaCount_Two(n) == 2

mafiaCount(n) == IF n <= 3 THEN 1 ELSE Max(1, (n - 1) \div 3)

\* The roles array before the shuffle.
rolesList(n) ==
  LET withMafia == Repeat("mafia", mafiaCount(n))
      withSpecial == IF n >= 3 THEN withMafia \o <<"detective", "doctor">> ELSE withMafia
  IN  withSpecial \o Repeat("villager", Max(0, n - Len(withSpecial)))

RemoveFirst(s, x) ==
  LET i == CHOOSE k \in DOMAIN s : s[k] = x /\ \A j \in 1..(k - 1) : s[j] # x
  IN  SubSeq(s, 1, i - 1) \o SubSeq(s, i + 1, Len(s))

\* Every order the Fisher-Yates shuffle can leave the array in.
RECURSIVE Shuffles(_)
Shuffles(s) ==
  IF s = <<>> THEN {<<>>}
  ELSE UNION {{<<x>> \o t : t \in Shuffles(RemoveFirst(s, x))} : x \in {s[i] : i \in DOMAIN s}}

\* Array.from(room.players.values()) as client ids
playerList == playerKeys

indexOf(s, x) == CHOOSE i \in DOMAIN s : s[i] = x

\* The game startMafiaGame stores for the roles array as the shuffle left it.
\* keys: Object.keys(assignments), the players in the order they were dealt
\* (the keys of alive are the same, in the same order).
newGame(roles) ==
  [started |-> TRUE,
   phase |-> "role",
   round |-> 1,
   keys |-> playerList,
   assignments |-> [p \in DOMAIN players |-> roles[indexOf(playerList, p)]],
   alive |-> [p \in DOMAIN players |-> TRUE],
   winnerTeam |-> Null,
   night |-> [mafiaKill |-> Null, doctorSave |-> Null, detectiveCheck |-> Null],
   day |-> [votes |-> EmptyMap],
   lastResult |-> NoResult,
   lastInvestigation |-> NoInvestigation]

resetNight(m) ==
  [m EXCEPT !.night = [mafiaKill |-> Null, doctorSave |-> Null, detectiveCheck |-> Null]]

\* resetDay that keeps the recorded votes
resetDay_KeepVotes(m) == m

resetDay(m) == [m EXCEPT !.day = [votes |-> EmptyMap]]

(***************************************************************************)
(* Initial state: the room as host:createRoom leaves it.  The time stamp   *)
(* of a history entry is left out.                                         *)
(***************************************************************************)
NoHub == [currentGame |-> Null, scoreboard |-> EmptyMap, history |-> <<>>]

Init ==
  /\ devMode = FALSE
  /\ hostSocketId = Conn(HostId).sid
  /\ players = EmptyMap
  /\ playerKeys = <<>>
  /\ hub = NoHub
  /\ mafia = NoGame
  /\ emitted = NoReply
  /\ registered = TRUE
  /\ rooms = EmptyMap
  /\ hostGoneTimer = Null
  /\ staleTimers = NoTimers

(***************************************************************************)
(* Resolutions                                                             *)
(***************************************************************************)
\* resolveNight that ignores the doctor's save
resolveNight_NoSave(m) ==
  IF ~m.started \/ m.winnerTeam # Null THEN m
  ELSE
    LET kill == m.night.mafiaKill
        dies == kill # Null /\ IsAlive(m, kill)
        m1 == IF dies THEN [m EXCEPT !.alive[kill] = FALSE] ELSE m
        m2 == [m1 EXCEPT !.lastResult =
                 [type |-> "night", died |-> IF dies THEN Person(kill) ELSE NoPerson]]
        m3 == [m2 EXCEPT !.winnerTeam = computeWinner(m2)]
        m4 == IF m3.winnerTeam = Null THEN resetDay([m3 EXCEPT !.phase = "day"]) ELSE m3
    IN  resetNight(m4)

resolveNight(m) ==
  IF ~m.started \/ m.winnerTeam # Null THEN m
  ELSE
    LET kill == m.night.mafiaKill
        save == m.night.doctorSave
        dies == kill # Null /\ IsAlive(m, kill) /\ ~(save # Null /\ save = kill)
        m1 == IF dies THEN [m EXCEPT !.alive[kill] = FALSE] ELSE m
        m2 == [m1 EXCEPT !.lastResult =
                 [type |-> "night", died |-> IF dies THEN Person(kill) ELSE NoPerson]]
        m3 == [m2 EXCEPT !.winnerTeam = computeWinner(m2)]
        m4 == IF m3.winnerTeam = Null THEN resetDay([m3 EXCEPT !.phase = "day"]) ELSE m3
    IN  resetNight(m4)

\* tallyOf that counts the votes of dead voters too
tallyOf_AnyVoter(m, t) ==
  Cardinality({v \in DOMAIN m.day.votes : IsAlive(m, m.day.votes[v]) /\ m.day.votes[v] = t})

\* tally[target]: the recorded votes with an alive voter and that alive target
tallyOf(m, t) ==
  Cardinality({v \in DOMAIN m.day.votes :
                 IsAlive(m, v) /\ IsAlive(m, m.day.votes[v]) /\ m.day.votes[v] = t})

\* dayOutcome that eliminates the first entry of a tied tally
dayOutcome_FirstOfTie(m) ==
  LET targets == {t \in DOMAIN m.alive : tallyOf(m, t) > 0}
      first == CHOOSE t \in targets : \A u \in targets : tallyOf(m, u) <= tallyOf(m, t)
  IN  [eliminatedId |-> IF targets = {} THEN Null ELSE first, tie |-> FALSE]

\* The tally, its descending sort and the choice of eliminatedId and tie.
dayOutcome(m) ==
  LET targets == {t \in DOMAIN m.alive : tallyOf(m, t) > 0}
      \* entries[0] after the descending sort
      first == CHOOSE t \in targets : \A u \in targets : tallyOf(m, u) <= tallyOf(m, t)
      \* entries[1] after the descending sort
      second == CHOOSE t \in targets \ {first} :
                  \A u \in targets \ {first} : tallyOf(m, u) <= tallyOf(m, t)
      tie == Cardinality(targets) >= 2 /\ tallyOf(m, first) = tallyOf(m, second)
  IN  [eliminatedId |-> IF targets = {} THEN Null
                        ELSE IF Cardinality(targets) = 1 THEN first
                        ELSE IF tie THEN Null ELSE first,
       tie |-> tie]

\* resolveDay that begins the next night without counting the round
resolveDay_SameRound(m) ==
  IF ~m.started \/ m.winnerTeam # Null THEN m
  ELSE
    LET out == dayOutcome(m)
        m1 == IF out.eliminatedId # Null /\ IsAlive(m, out.eliminatedId)
              THEN [m EXCEPT !.alive[out.eliminatedId] = FALSE] ELSE m
        m2 == [m1 EXCEPT !.lastResult =
                 [type |-> "day", tie |-> out.tie,
                  eliminated |-> IF out.eliminatedId # Null
                                   THEN Person(out.eliminatedId) ELSE NoPerson]]
        m3 == [m2 EXCEPT !.winnerTeam = computeWinner(m2)]
        m4 == IF m3.winnerTeam = Null
              THEN resetNight([m3 EXCEPT !.phase = "night"])
              ELSE m3
    IN  resetDay(m4)

resolveDay(m) ==
  IF ~m.started \/ m.winnerTeam # Null THEN m
  ELSE
    LET out == dayOutcome(m)
        m1 == IF out.eliminatedId # Null /\ IsAlive(m, out.eliminatedId)
              THEN [m EXCEPT !.alive[out.eliminatedId] = FALSE] ELSE m
        m2 == [m1 EXCEPT !.lastResult =
                 [type |-> "day", tie |-> out.tie,
                  eliminated |-> IF out.eliminatedId # Null
                                   THEN Person(out.eliminatedId) ELSE NoPerson]]
        m3 == [m2 EXCEPT !.winnerTeam = computeWinner(m2)]
        m4 == IF m3.winnerTeam = Null
              THEN resetNight([m3 EXCEPT !.round = m.round + 1, !.phase = "night"])
              ELSE m3
    IN  resetDay(m4)

\* The model follows a game through its first maxRound rounds.
RoundInBound(m, maxRound) == m.started => m.round <= maxRound

(***************************************************************************)
(* Socket events of the devMode implementation                             *)
(***************************************************************************)
HostSetDevMode(conn, enabled) ==
  /\ devMode' = IF isHost(conn) THEN enabled ELSE devMode
  /\ emitted' = NoReply
  /\ UNCHANGED <<hostSocketId, players, playerKeys, hub, mafia>>

\* ensureScore: if (!scoreboard[clientId]) scoreboard[clientId] = 0
ensureScoreA(sb, cid) ==
  IF cid \in DOMAIN sb /\ sb[cid] # 0 THEN sb ELSE Put(sb, cid, 0)

\* player:join that deals a late player into the running game
PlayerJoin_IntoGame(conn, overrideId, name) ==
  LET cid == pickId(overrideId, conn.clientId)
      nm == trimName(name)
  IN  IF cid = "" THEN emitted' = NoReply /\ UNCHANGED room
      ELSE IF nm = ""
        THEN /\ emitted' = [message |-> "NAME_REQUIRED"]
             /\ UNCHANGED room
        ELSE /\ players' = Put(players, cid,
                              [clientId |-> cid, name |-> nm, ready |-> FALSE,
                               socketId |-> conn.sid])
             /\ playerKeys' = setKey(playerKeys, cid)
             /\ hub' = [hub EXCEPT !.scoreboard = ensureScoreA(@, cid)]
             /\ mafia' = IF mafia.started /\ cid \notin DOMAIN mafia.assignments
                           THEN [mafia EXCEPT !.keys = setKey(@, cid),
                                              !.assignments = Put(@, cid, "villager"),
                                              !.alive = Put(@, cid, TRUE)]
                           ELSE mafia
             /\ emitted' = joinedReply("player:joined", conn.sid, RoomCode,
                                        roleMessage(mafia', players', cid))
             /\ UNCHANGED <<devMode, hostSocketId>>

PlayerJoin(conn, overrideId, name) ==
  LET cid == pickId(overrideId, conn.clientId)
      nm == trimName(name)
  IN  IF cid = "" THEN emitted' = NoReply /\ UNCHANGED room
      ELSE IF nm = ""
        THEN /\ emitted' = [message |-> "NAME_REQUIRED"]
             /\ UNCHANGED room
        ELSE /\ players' = Put(players, cid,
                              [clientId |-> cid, name |-> nm, ready |-> FALSE,
                               socketId |-> conn.sid])
             /\ playerKeys' = setKey(playerKeys, cid)
             /\ hub' = [hub EXCEPT !.scoreboard = ensureScoreA(@, cid)]
             /\ emitted' = joinedReply("player:joined", conn.sid, RoomCode,
                                        roleMessage(mafia, players', cid))
             /\ UNCHANGED <<devMode, hostSocketId, mafia>>

\* player:leave that also takes the leaver out of the game
PlayerLeave_Dies(conn, overrideId) ==
  LET cid == pickId(overrideId, conn.clientId)
  IN  /\ players' = IF cid = "" THEN players ELSE Remove(players, cid)
      /\ playerKeys' = IF cid = "" THEN playerKeys ELSE deleteKey(playerKeys, cid)
      /\ mafia' = IF mafia.started /\ cid \in DOMAIN mafia.alive
                    THEN [mafia EXCEPT !.alive[cid] = FALSE] ELSE mafia
      /\ emitted' = NoReply
      /\ UNCHANGED <<devMode, hostSocketId, hub>>

PlayerLeave(conn, overrideId) ==
  LET cid == pickId(overrideId, conn.clientId)
  IN  /\ players' = IF cid = "" THEN players ELSE Remove(players, cid)
      /\ playerKeys' = IF cid = "" THEN playerKeys ELSE deleteKey(playerKeys, cid)
      /\ emitted' = NoReply
      /\ UNCHANGED <<devMode, hostSocketId, hub, mafia>>

\* player:ready: p.ready = !!ready for a player of the room
PlayerReady(conn, overrideId, ready) ==
  LET cid == pickId(overrideId, conn.clientId)
  IN  /\ players' = IF cid = "" \/ cid \notin DOMAIN players THEN players
                      ELSE [players EXCEPT ![cid].ready = ready]
      /\ emitted' = NoReply
      /\ UNCHANGED <<devMode, hostSocketId, playerKeys, hub, mafia>>

\* startMafiaGame and the mafia:start handler around it
\* mafia:start that counts only the connected players
MafiaStart_Connected(conn) ==
  LET n == Cardinality({c \in DOMAIN players : players[c].socketId # Null})
  IN  IF ~isHost(conn) THEN emitted' = NoReply /\ UNCHANGED room
      ELSE IF n < minPlayers
        THEN /\ emitted' = [message |-> "NEED_MIN_PLAYERS", minPlayers |-> minPlayers]
             /\ UNCHANGED room
        ELSE /\ \E roles \in Shuffles(rolesList(Cardinality(DOMAIN players))) : mafia' = newGame(roles)
             /\ hub' = [hub EXCEPT !.currentGame = "mafia"]
             /\ emitted' = NoReply
             /\ UNCHANGED <<devMode, hostSocketId, players, playerKeys>>

\* startMafiaGame that leaves a running, undecided game alone
startMafiaGame_KeepRunning ==
  LET n == Cardinality(DOMAIN players)
  IN  IF n < minPlayers THEN {}
      ELSE IF mafia.started /\ mafia.winnerTeam = Null THEN {mafia}
      ELSE {newGame(roles) : roles \in Shuffles(rolesList(n))}

\* startMafiaGame(room): the games it can store in room.mafia, one for each
\* outcome of the shuffle; none when it returns ok: false.
startMafiaGame ==
  LET n == Cardinality(DOMAIN players)
  IN  IF n < minPlayers THEN {}
      ELSE {newGame(roles) : roles \in Shuffles(rolesList(n))}

MafiaStart(conn) ==
  LET n == Cardinality(DOMAIN players)
  IN  IF ~isHost(conn) THEN emitted' = NoReply /\ UNCHANGED room
      ELSE IF n < minPlayers
        THEN /\ emitted' = [message |-> "NEED_MIN_PLAYERS", minPlayers |-> minPlayers]
             /\ UNCHANGED room
        ELSE /\ \E game \in startMafiaGame : mafia' = game
             /\ hub' = [hub EXCEPT !.currentGame = "mafia"]
             /\ emitted' = NoReply
             /\ UNCHANGED <<devMode, hostSocketId, players, playerKeys>>

\* mafia:next that waits until every player is connected
nextOf_WaitsForAll(m) ==
  IF ~m.started \/ m.winnerTeam # Null THEN m
  ELSE IF \E cid \in DOMAIN players : players[cid].socketId = Null THEN m
  ELSE IF m.phase = "role" THEN resetNight([m EXCEPT !.phase = "night"])
  ELSE IF m.phase = "night" THEN resolveNight(m)
  ELSE IF m.phase = "day" THEN resolveDay(m)
  ELSE m

\* The game after a mafia:next of the host.
nextOf(m) ==
  IF ~m.started \/ m.winnerTeam # Null THEN m
  ELSE IF m.phase = "role" THEN resetNight([m EXCEPT !.phase = "night"])
  ELSE IF m.phase = "night" THEN resolveNight(m)
  ELSE IF m.phase = "day" THEN resolveDay(m)
  ELSE m

MafiaNext(conn) ==
  /\ mafia' = IF ~mafia.started \/ ~isHost(conn) THEN mafia ELSE nextOf(mafia)
  /\ emitted' = NoReply
  /\ UNCHANGED <<devMode, hostSocketId, players, playerKeys, hub>>

\* mafia:forceResolveNight without the test of the phase
MafiaForceResolveNight_AnyPhase(conn) ==
  /\ mafia' =
       IF ~mafia.started \/ ~isHost(conn) THEN mafia
       ELSE IF mafia.winnerTeam # Null THEN mafia
       ELSE resolveNight(mafia)
  /\ emitted' = NoReply
  /\ UNCHANGED <<devMode, hostSocketId, players, playerKeys, hub>>

MafiaForceResolveNight(conn) ==
  /\ mafia' =
       IF ~mafia.started \/ ~isHost(conn) THEN mafia
       ELSE IF mafia.winnerTeam # Null THEN mafia
       ELSE IF mafia.phase # "night" THEN mafia
       ELSE resolveNight(mafia)
  /\ emitted' = NoReply
  /\ UNCHANGED <<devMode, hostSocketId, players, playerKeys, hub>>

MafiaForceResolveDay(conn) ==
  /\ mafia' =
       IF ~mafia.started \/ ~isHost(conn) THEN mafia
       ELSE IF mafia.winnerTeam # Null THEN mafia
       ELSE IF mafia.phase # "day" THEN mafia
       ELSE resolveDay(mafia)
  /\ emitted' = NoReply
  /\ UNCHANGED <<devMode, hostSocketId, players, playerKeys, hub>>

\* nightActionResult without the check that the actor is alive
nightActionResult_AnyActor(m, cid, action, targetId) ==
  IF ~m.started \/ cid = "" THEN m
  ELSE IF m.winnerTeam # Null \/ m.phase # "night" \/ cid \notin DOMAIN m.assignments THEN m
  ELSE IF targetId = "" \/ ~IsAlive(m, targetId) THEN m
  ELSE LET role == m.assignments[cid]
           act == trimLower(action)
       IN  IF act = "kill" /\ role = "mafia" THEN [m EXCEPT !.night.mafiaKill = targetId]
           ELSE IF act = "save" /\ role = "doctor" THEN [m EXCEPT !.night.doctorSave = targetId]
           ELSE IF act = "check" /\ role = "detective"
             THEN [m EXCEPT !.night.detectiveCheck = targetId,
                            !.lastInvestigation =
                               [by |-> cid, targetId |-> targetId,
                                isMafia |-> m.assignments[targetId] = "mafia"]]
           ELSE m

\* nightActionResult in which the first submission of a slot stands
nightActionResult_FirstWins(m, cid, action, targetId) ==
  IF ~m.started \/ cid = "" THEN m
  ELSE IF m.winnerTeam # Null \/ m.phase # "night" \/ ~IsAlive(m, cid) THEN m
  ELSE IF targetId = "" \/ ~IsAlive(m, targetId) THEN m
  ELSE LET role == m.assignments[cid]
           act == trimLower(action)
       IN  IF act = "kill" /\ role = "mafia"
             THEN IF m.night.mafiaKill # Null THEN m
                  ELSE [m EXCEPT !.night.mafiaKill = targetId]
           ELSE IF act = "save" /\ role = "doctor" THEN [m EXCEPT !.night.doctorSave = targetId]
           ELSE IF act = "check" /\ role = "detective"
             THEN [m EXCEPT !.night.detectiveCheck = targetId,
                            !.lastInvestigation =
                               [by |-> cid, targetId |-> targetId,
                                isMafia |-> m.assignments[targetId] = "mafia"]]
           ELSE m

nightActionResult(m, cid, action, targetId) ==
  IF ~m.started \/ cid = "" THEN m
  ELSE IF m.winnerTeam # Null \/ m.phase # "night" \/ ~IsAlive(m, cid) THEN m
  ELSE IF targetId = "" \/ ~IsAlive(m, targetId) THEN m
  ELSE LET role == m.assignments[cid]
           act == trimLower(action)
       IN  IF act = "kill" /\ role = "mafia" THEN [m EXCEPT !.night.mafiaKill = targetId]
           ELSE IF act = "save" /\ role = "doctor" THEN [m EXCEPT !.night.doctorSave = targetId]
           ELSE IF act = "check" /\ role = "detective"
             THEN [m EXCEPT !.night.detectiveCheck = targetId,
                            !.lastInvestigation =
                               [by |-> cid, targetId |-> targetId,
                                isMafia |-> m.assignments[targetId] = "mafia"]]
           ELSE m

MafiaNightAction(conn, cidRaw, action, targetId) ==
  /\ mafia' = nightActionResult(mafia, pickId(cidRaw, conn.clientId), action, targetId)
  /\ emitted' = NoReply
  /\ UNCHANGED <<devMode, hostSocketId, players, playerKeys, hub>>

voteResult(m, cid, targetId) ==
  IF ~m.started \/ cid = "" THEN m
  ELSE IF m.winnerTeam # Null \/ m.phase # "day" \/ ~IsAlive(m, cid) THEN m
  ELSE IF targetId = "" \/ ~IsAlive(m, targetId) THEN m
  ELSE [m EXCEPT !.day.votes = Put(m.day.votes, cid, targetId)]

MafiaVote(conn, cidRaw, targetId) ==
  /\ mafia' = voteResult(mafia, pickId(cidRaw, conn.clientId), targetId)
  /\ emitted' = NoReply
  /\ UNCHANGED <<devMode, hostSocketId, players, playerKeys, hub>>

\* mafia:backToLobby that starts the hub afresh
MafiaBackToLobby_FreshHub(conn) ==
  /\ IF isHost(conn)
       THEN /\ mafia' = NoGame
            /\ hub' = [NoHub EXCEPT !.history = <<[type |-> "backToLobby"]>>]
       ELSE UNCHANGED <<mafia, hub>>
  /\ emitted' = NoReply
  /\ UNCHANGED <<devMode, hostSocketId, players, playerKeys>>

MafiaBackToLobby(conn) ==
  /\ IF isHost(conn)
       THEN /\ mafia' = NoGame
            /\ hub' = [hub EXCEPT !.currentGame = Null,
                                  !.history = Append(@, [type |-> "backToLobby"])]
       ELSE UNCHANGED <<mafia, hub>>
  /\ emitted' = NoReply
  /\ UNCHANGED <<devMode, hostSocketId, players, playerKeys>>

\* MafiaSetRole with the win evaluation of mafia:toggleAlive copied into it
MafiaSetRole_Reeval(conn, targetId, role) ==
  /\ mafia' =
       IF ~mafia.started \/ ~isHost(conn) \/ ~devMode THEN mafia
       ELSE IF targetId = "" \/ targetId \notin DOMAIN mafia.assignments
               \/ safeRoleName(role) = Null THEN mafia
       ELSE LET m1 == [mafia EXCEPT !.assignments[targetId] = safeRoleName(role)]
            IN  [m1 EXCEPT !.winnerTeam = computeWinner(m1)]
  /\ emitted' = NoReply
  /\ UNCHANGED <<devMode, hostSocketId, players, playerKeys, hub>>

MafiaSetRole(conn, targetId, role) ==
  /\ mafia' =
       IF ~mafia.started \/ ~isHost(conn) \/ ~devMode THEN mafia
       ELSE IF targetId = "" \/ targetId \notin DOMAIN mafia.assignments
               \/ safeRoleName(role) = Null THEN mafia
       ELSE [mafia EXCEPT !.assignments[targetId] = safeRoleName(role)]
  /\ emitted' = NoReply
  /\ UNCHANGED <<devMode, hostSocketId, players, playerKeys, hub>>

MafiaToggleAlive(conn, targetId) ==
  /\ mafia' =
       IF ~mafia.started \/ ~isHost(conn) \/ ~devMode THEN mafia
       ELSE IF targetId = "" \/ targetId \notin DOMAIN mafia.alive THEN mafia
       ELSE LET m1 == [mafia EXCEPT !.alive[targetId] = ~mafia.alive[targetId]]
            IN  [m1 EXCEPT !.winnerTeam = computeWinner(m1)]
  /\ emitted' = NoReply
  /\ UNCHANGED <<devMode, hostSocketId, players, playerKeys, hub>>

\* disconnect that deletes the player entries of the socket
Disconnect_Remove(conn) ==
  /\ hostSocketId' = IF hostSocketId = conn.sid THEN Null ELSE hostSocketId
  /\ players' = [cid \in {c \in DOMAIN players : players[c].socketId # conn.sid} |-> players[cid]]
  /\ playerKeys' = SelectSeq(playerKeys, LAMBDA c : players[c].socketId # conn.sid)
  /\ emitted' = NoReply
  /\ UNCHANGED <<devMode, hub, mafia>>

Disconnect(conn) ==
  /\ hostSocketId' = IF hostSocketId = conn.sid THEN Null ELSE hostSocketId
  /\ players' = [cid \in DOMAIN players |->
                   IF players[cid].socketId = conn.sid
                     THEN [players[cid] EXCEPT !.socketId = Null]
                     ELSE players[cid]]
  /\ emitted' = NoReply
  /\ UNCHANGED <<devMode, playerKeys, hub, mafia>>

(***************************************************************************)
(* Environments: the events of one room of the devMode implementation,     *)
(* with their inputs drawn from the given sets                             *)
(***************************************************************************)
HostConns == {Conn(HostId), Conn("a")}

\* (connection, clientId given in the payload) pairs of the events of players
ActorInputs(ids) ==
  {<<Conn(c), "">> : c \in ids} \cup {<<Conn(HostId), "a">>, <<Conn(HostId), "">>}

Join(ids, names) == \E c \in ids, name \in names : PlayerJoin(Conn(c), "", name)

\* The players join the room one after another, in one of the given orders.
Arrive(orders, names) ==
  \E o \in orders, name \in names :
    /\ Len(playerKeys) < Len(o)
    /\ playerKeys = SubSeq(o, 1, Len(playerKeys))
    /\ PlayerJoin(Conn(o[Len(playerKeys) + 1]), "", name)

Leave(ids) == \E c \in ids : PlayerLeave(Conn(c), "")

SetDevMode(values) == \E conn \in HostConns, enabled \in values : HostSetDevMode(conn, enabled)

Start == \E conn \in HostConns : MafiaStart(conn)

Advance(maxRound) == RoundInBound(mafia, maxRound) /\ \E conn \in HostConns : MafiaNext(conn)

ForceNight(maxRound) ==
  RoundInBound(mafia, maxRound) /\ \E conn \in HostConns : MafiaForceResolveNight(conn)

ForceDay(maxRound) ==
  RoundInBound(mafia, maxRound) /\ \E conn \in HostConns : MafiaForceResolveDay(conn)

NightAction(actors, actions, targets, maxRound) ==
  /\ RoundInBound(mafia, maxRound)
  /\ \E actor \in actors, action \in actions, targetId \in targets :
       MafiaNightAction(actor[1], actor[2], action, targetId)

Vote(actors, targets, maxRound) ==
  /\ RoundInBound(mafia, maxRound)
  /\ \E actor \in actors, targetId \in targets : MafiaVote(actor[1], actor[2], targetId)

Drop(ids) == \E c \in ids : Disconnect(Conn(c))

Ready(ids) == \E c \in ids, ready \in BOOLEAN : PlayerReady(Conn(c), "", ready)

\* The returns to the lobby are followed while the history is in bound.
BackToLobby ==
  Len(hub.history) < MaxReturns /\ \E conn \in HostConns : MafiaBackToLobby(conn)

SetRole(targets, roles, maxRound) ==
  /\ RoundInBound(mafia, maxRound)
  /\ \E conn \in HostConns, targetId \in targets, role \in roles :
       MafiaSetRole(conn, targetId, role)

ToggleAlive(targets, maxRound) ==
  /\ RoundInBound(mafia, maxRound)
  /\ \E conn \in HostConns, targetId \in targets : MafiaToggleAlive(conn, targetId)

(***************************************************************************)
(* Spec: a room of up to three players in developer mode                   *)
(***************************************************************************)
GameTargets == GameIds \cup {""}

GameOrders == {<<"a", "b", "c">>, <<"c", "b", "a">>}

Next ==
  \/ Arrive(GameOrders, {"Ann", " Ann "}) /\ UNCHANGED lifeVars
  \/ SetDevMode({TRUE}) /\ UNCHANGED lifeVars
  \/ hub.history = <<>> /\ Start /\ UNCHANGED lifeVars
  \/ Advance(MaxRound) /\ UNCHANGED lifeVars
  \/ ForceNight(MaxRound) /\ UNCHANGED lifeVars
  \/ ForceDay(MaxRound) /\ UNCHANGED lifeVars
  \/ NightAction(ActorInputs(GameIds), ActionInputs, GameTargets, MaxRound) /\ UNCHANGED lifeVars
  \/ Vote(ActorInputs(GameIds), GameTargets, MaxRound) /\ UNCHANGED lifeVars
  \/ BackToLobby /\ UNCHANGED lifeVars
  \/ SetRole({"b", "z"}, {" Mafia ", "king"}, MaxRound) /\ UNCHANGED lifeVars
  \/ ToggleAlive({"a", "", "z"}, MaxRound) /\ UNCHANGED lifeVars

Spec == Init /\ [][Next]_vars

(***************************************************************************)
(* SpecFour: a room of up to four players; night and vote targets a and b  *)
(***************************************************************************)
FourIds == {"a", "b", "c", "d"}

OwnConns(ids) == {<<Conn(c), "">> : c \in ids}

FourOrders == {<<"a", "b", "c", "d">>, <<"d", "c", "b", "a">>}

NextFour ==
  \/ Arrive(FourOrders, {"Ann"}) /\ UNCHANGED lifeVars
  \/ SetDevMode({TRUE}) /\ UNCHANGED lifeVars
  \/ Start /\ UNCHANGED lifeVars
  \/ Advance(MaxRound) /\ UNCHANGED lifeVars
  \/ ForceNight(MaxRound) /\ UNCHANGED lifeVars
  \/ ForceDay(MaxRound) /\ UNCHANGED lifeVars
  \/ NightAction(OwnConns(FourIds), {"kill", "save", "check"}, {"a", "b"}, MaxRound) /\ UNCHANGED lifeVars
  \/ Vote(OwnConns(FourIds), {"a", "b"}, MaxRound) /\ UNCHANGED lifeVars
  \/ ToggleAlive({"a"}, MaxRound) /\ UNCHANGED lifeVars

SpecFour == Init /\ [][NextFour]_vars

(***************************************************************************)
(* SpecStart: the lobby of a room of up to seven players and mafia:start   *)
(***************************************************************************)
MaxStartPlayers == Len(AllIds)

\* The room after the first n identities of AllIds have joined it.
InitStart ==
  /\ devMode = FALSE
  /\ hostSocketId = Conn(HostId).sid
  /\ \E n \in 0..MaxStartPlayers :
       /\ players = [cid \in {AllIds[i] : i \in 1..n} |->
                       [clientId |-> cid, name |-> "Ann", ready |-> FALSE,
                        socketId |-> Conn(cid).sid]]
       /\ playerKeys = SubSeq(AllIds, 1, n)
  /\ hub = [NoHub EXCEPT !.scoreboard = [cid \in DOMAIN players |-> 0]]
  /\ mafia = NoGame
  /\ emitted = NoReply
  /\ registered = TRUE
  /\ rooms = EmptyMap
  /\ hostGoneTimer = Null
  /\ staleTimers = NoTimers

NextStart ==
  \/ SetDevMode(BOOLEAN) /\ UNCHANGED lifeVars
  \/ Drop({"a", "b"}) /\ UNCHANGED lifeVars
  \/ Start /\ UNCHANGED lifeVars

SpecStart == InitStart /\ [][NextStart]_vars

(***************************************************************************)
(* Properties                                                              *)
(***************************************************************************)
Host == Conn(HostId)

Undecided == mafia.started /\ mafia.winnerTeam = Null

Decided == mafia.started /\ mafia.winnerTeam # Null

\* A step in which the host's advance or force-resolve runs resolveNight
\* (which always changes the game instance).
NightResolution ==
  /\ Undecided /\ mafia.phase = "night" /\ mafia' # mafia
  /\ MafiaNext(Host) \/ MafiaForceResolveNight(Host)

\* A step in which the host's advance or force-resolve runs resolveDay
\* (which always changes the game instance).
DayResolution ==
  /\ Undecided /\ mafia.phase = "day" /\ mafia' # mafia
  /\ MafiaNext(Host) \/ MafiaForceResolveDay(Host)

StartStep == \E conn \in HostConns : MafiaStart(conn)

BackToLobbyStep == \E conn \in HostConns : MafiaBackToLobby(conn)

ToggleAliveStep == \E targetId \in DOMAIN mafia.alive : MafiaToggleAlive(Host, targetId)

AliveMafia(m) == {c \in DOMAIN m.alive : m.alive[c] /\ m.assignments[c] = "mafia"}

AliveTown(m) == {c \in DOMAIN m.alive : m.alive[c] /\ m.assignments[c] # "mafia"}

\* C1 (as claimed): once winnerTeam is non-null it never changes within the
\* game instance, whatever event follows; only mafia:start and
\* mafia:backToLobby, which replace or discard the instance, may clear it.
C1_WinnerNeverChanges ==
  [][(Decided /\ (~mafia'.started \/ mafia'.winnerTeam # mafia.winnerTeam))
       => (StartStep \/ BackToLobbyStep)]_vars

\* C1 (amended): once winnerTeam is non-null, mafia:next, the force-resolves,
\* mafia:nightAction, mafia:vote and mafia:setRole leave it unchanged; only
\* mafia:toggleAlive (which re-evaluates the winner), mafia:start and
\* mafia:backToLobby may change or clear it.
C1_WinnerChangesOnlyByToggle ==
  [][(Decided /\ (~mafia'.started \/ mafia'.winnerTeam # mafia.winnerTeam))
       => (StartStep \/ BackToLobbyStep \/ ToggleAliveStep)]_vars

\* A decided game whose roles were edited afterwards: town has won although a
\* mafia is alive.
C1_Witness == Decided /\ mafia.winnerTeam = "town" /\ AliveMafia(mafia) # {}

\* C2: after every night resolution and every day resolution winnerTeam is
\* town if no alive player is mafia, mafia if the alive mafia are at least as
\* many as the alive others, and null otherwise, counted after the death.
C2_WinnerAfterResolution ==
  [][(NightResolution \/ DayResolution) =>
       mafia'.winnerTeam =
         IF Cardinality(AliveMafia(mafia')) = 0 THEN "town"
         ELSE IF Cardinality(AliveMafia(mafia')) >= Cardinality(AliveTown(mafia')) THEN "mafia"
         ELSE Null]_vars

\* A night resolution after which one mafia faces one other player.
C2_Witness ==
  /\ mafia.started /\ mafia.lastResult.type = "night"
  /\ mafia.lastResult.died # NoPerson
  /\ mafia.winnerTeam = "mafia"
  /\ Cardinality(AliveMafia(mafia)) = 1 /\ Cardinality(AliveTown(mafia)) = 1

\* C3: a resolution that decides a winner moves the phase to ENDED in the
\* same step, so that winnerTeam is non-null exactly when the phase is ENDED.
\* resolveNight and resolveDay assign m.phase only when the game goes on, so
\* the step of C3_Witness violates this.
C3_DecisionEndsPhase ==
  [][((NightResolution \/ DayResolution) /\ mafia'.winnerTeam # Null)
       => mafia'.phase = "ENDED"]_vars

\* A day elimination that left no mafia alive: town has won, the phase is day.
C3_Witness ==
  /\ mafia.started /\ mafia.lastResult.type = "day"
  /\ mafia.lastResult.eliminated # NoPerson
  /\ AliveMafia(mafia) = {}
  /\ mafia.winnerTeam = "town" /\ mafia.phase = "day"

\* The votes that count at resolution time, restated from the claim.
ValidVotes(m) ==
  {v \in DOMAIN m.day.votes : IsAlive(m, v) /\ IsAlive(m, m.day.votes[v])}

Count(m, t) == Cardinality({v \in ValidVotes(m) : m.day.votes[v] = t})

\* The alive targets that share the highest count of valid votes.
Leaders(m) ==
  {t \in DOMAIN m.alive : Count(m, t) > 0 /\ \A u \in DOMAIN m.alive : Count(m, u) <= Count(m, t)}

\* C4: a night resolution turns exactly the kill target dead and reports it
\* as died when a kill target is selected, alive and not the save target;
\* when the save target equals the kill target or no kill target is selected,
\* no alive flag changes and lastResult = {type: night, died: null}.
C4_NightResolution ==
  [][NightResolution =>
       LET kill == mafia.night.mafiaKill
           save == mafia.night.doctorSave
       IN  /\ (kill # Null /\ IsAlive(mafia, kill) /\ kill # save) =>
                /\ mafia'.alive = [mafia.alive EXCEPT ![kill] = FALSE]
                /\ mafia'.lastResult.type = "night"
                /\ mafia'.lastResult.died.clientId = kill
           /\ (kill = Null \/ kill = save) =>
                /\ mafia'.alive = mafia.alive
                /\ mafia'.lastResult = [type |-> "night", died |-> NoPerson]]_vars

\* A night that killed a player and left the game undecided.
C4_Witness ==
  /\ Undecided /\ mafia.phase = "day" /\ mafia.lastResult.type = "night"
  /\ mafia.lastResult.died.clientId \in DOMAIN mafia.alive
  /\ ~mafia.alive[mafia.lastResult.died.clientId]

\* C5: in a day resolution, when two or more alive targets share the highest
\* count of valid votes nobody is eliminated: the alive flags are unchanged
\* and lastResult = {type: day, eliminated: null, tie: true}.
C5_TieEliminatesNobody ==
  [][(DayResolution /\ Cardinality(Leaders(mafia)) >= 2) =>
       /\ mafia'.alive = mafia.alive
       /\ mafia'.lastResult = [type |-> "day", tie |-> TRUE, eliminated |-> NoPerson]]_vars

\* A tied day with three alive players, after which the game went on.
C5_Witness ==
  /\ Undecided /\ mafia.phase = "night" /\ mafia.round = 2
  /\ mafia.lastResult = [type |-> "day", tie |-> TRUE, eliminated |-> NoPerson]
  /\ Cardinality(alivePlayers(mafia)) = 3

\* C6: a day resolution counts a vote only if its voter and its target are
\* alive at resolution time; a unique target with the highest count, and only
\* that target, becomes dead with tie = false; without a valid vote nobody is
\* eliminated and tie = false.
C6_PluralityElimination ==
  [][DayResolution =>
       /\ \A t \in DOMAIN mafia.alive :
            Leaders(mafia) = {t} =>
              /\ mafia'.alive = [mafia.alive EXCEPT ![t] = FALSE]
              /\ mafia'.lastResult.type = "day"
              /\ mafia'.lastResult.tie = FALSE
              /\ mafia'.lastResult.eliminated.clientId = t
       /\ ValidVotes(mafia) = {} =>
            /\ mafia'.alive = mafia.alive
            /\ mafia'.lastResult = [type |-> "day", tie |-> FALSE, eliminated |-> NoPerson]]_vars

\* A day that eliminated b while a was dead already.
C6_Witness ==
  /\ mafia.started /\ mafia.lastResult.type = "day"
  /\ mafia.lastResult.tie = FALSE
  /\ mafia.lastResult.eliminated.clientId = "b"
  /\ "a" \in DOMAIN mafia.alive /\ ~mafia.alive["a"]
  /\ Cardinality(alivePlayers(mafia)) = 2

\* The acting identities C7 is checked for: every player, an unknown
\* identity and none.
DeadActorInputs == {""} \cup FourIds \cup {"z"}

\* C7: in every state, a mafia:nightAction or mafia:vote whose acting identity
\* is not alive (or has no alive entry) leaves the game instance as it is,
\* for every action and every target.
C7_DeadActorChangesNothing ==
  \A cidRaw \in DeadActorInputs, targetId \in FourIds \cup {""} :
    LET cid == pickId(cidRaw, Conn("").clientId)
    IN  ~(mafia.started /\ IsAlive(mafia, cid)) =>
          /\ voteResult(mafia, cid, targetId) = mafia
          /\ \A action \in ActionInputs :
               nightActionResult(mafia, cid, action, targetId) = mafia

\* An undecided night in which the doctor or the detective is dead.
C7_Witness ==
  /\ Undecided /\ mafia.phase = "night"
  /\ \E c \in DOMAIN mafia.alive :
       ~mafia.alive[c] /\ mafia.assignments[c] \in {"doctor", "detective"}

RoleCount(m, r) == Cardinality({c \in DOMAIN m.assignments : m.assignments[c] = r})

\* C8: a started game gives every player of the room exactly one of the four
\* roles, 1 mafia for n <= 3 and max(1, floor((n-1)/3)) otherwise, one
\* detective and one doctor when n >= 3 and none when n = 2, villagers
\* otherwise, and every player alive.
C8_RoleAssignment ==
  (mafia.started /\ mafia.phase = "role") =>
    LET n == Cardinality(DOMAIN players)
    IN  /\ n >= 2
        /\ DOMAIN mafia.assignments = DOMAIN players
        /\ \A c \in DOMAIN players : mafia.assignments[c] \in Roles
        /\ RoleCount(mafia, "mafia") = (IF n <= 3 THEN 1 ELSE Max(1, (n - 1) \div 3))
        /\ RoleCount(mafia, "detective") = (IF n >= 3 THEN 1 ELSE 0)
        /\ RoleCount(mafia, "doctor") = (IF n >= 3 THEN 1 ELSE 0)
        /\ RoleCount(mafia, "villager") =
             n - RoleCount(mafia, "mafia") - (IF n >= 3 THEN 2 ELSE 0)
        /\ n = 5 => RoleCount(mafia, "villager") = 2
        /\ DOMAIN mafia.alive = DOMAIN players
        /\ \A c \in DOMAIN players : mafia.alive[c]

\* A game of seven players with two mafia.
C8_Witness ==
  /\ mafia.started /\ Cardinality(DOMAIN players) = 7
  /\ RoleCount(mafia, "mafia") = 2 /\ RoleCount(mafia, "villager") = 3

\* C9: mafia:start replaces room.mafia only for the host and with at least 5
\* players (2 in devMode), connected or not; with fewer the caller receives
\* NEED_MIN_PLAYERS with that minimum and mafia, hub and players are unchanged.
C9_StartNeedsMinPlayers ==
  [][\A conn \in HostConns :
       LET n == Cardinality(DOMAIN players)
           min == IF devMode THEN 2 ELSE 5
       IN  /\ (isHost(conn) /\ n >= min) =>
                \/ /\ mafia'.started /\ mafia'.phase = "role"
                   /\ DOMAIN mafia'.assignments = DOMAIN players
                \/ ~MafiaStart(conn)
           /\ (isHost(conn) /\ n < min /\ MafiaStart(conn)) =>
                /\ emitted' = [message |-> "NEED_MIN_PLAYERS", minPlayers |-> min]
                /\ UNCHANGED <<mafia, hub, players, playerKeys>>
           /\ (~isHost(conn) /\ MafiaStart(conn)) => UNCHANGED room]_vars

\* A start refused in devMode with a single player in the room.
C9_Witness ==
  /\ ~mafia.started /\ emitted.message = "NEED_MIN_PLAYERS"
  /\ emitted.minPlayers = 2 /\ devMode /\ Cardinality(DOMAIN players) = 1
(***************************************************************************)
(* The grace-timer implementation (part_000 lines 875-1643).  Its room     *)
(* holds the same fields; hub also holds the scoreboard and the history,   *)
(* the game keeps its votes in m.votes and has no developer mode.          *)
(***************************************************************************)
FiveIds == {"a", "b", "c", "d", "e"}

\* The history entries the model follows a room through.
MaxHistory == 2

NoScore(cid, name) ==
  [clientId |-> cid, name |-> name, points |-> 0, wins |-> 0, gamesPlayed |-> 0]

\* ensureScore: a zeroed entry for a new player, the name refreshed otherwise
ensureScore(sb, cid, name) ==
  IF cid \in DOMAIN sb THEN [sb EXCEPT ![cid].name = name]
  ELSE Put(sb, cid, NoScore(cid, name))

roleOf(m, cid) == IF cid \in DOMAIN m.assignments THEN m.assignments[cid] ELSE Null

countTeam(m) ==
  [mafiaAlive |-> Cardinality({c \in DOMAIN m.alive : m.alive[c] /\ m.assignments[c] = "mafia"}),
   townAlive |-> Cardinality({c \in DOMAIN m.alive : m.alive[c] /\ m.assignments[c] # "mafia"})]

checkWin(m) ==
  LET c == countTeam(m)
  IN  IF c.mafiaAlive <= 0 THEN [over |-> TRUE, winnerTeam |-> "town"]
      ELSE IF c.mafiaAlive >= c.townAlive THEN [over |-> TRUE, winnerTeam |-> "mafia"]
      ELSE [over |-> FALSE, winnerTeam |-> Null]

\* awardPoints on hub h for the game m; the entry's time stamp is left out.
awardPoints(h, m, winnerTeam) ==
  LET isWinner(cid) ==
        \/ winnerTeam = "mafia" /\ roleOf(m, cid) = "mafia"
        \/ winnerTeam = "town" /\ roleOf(m, cid) # "mafia"
      ids == DOMAIN h.scoreboard \cup DOMAIN players
      entry(cid) ==
        IF cid \in DOMAIN players
          THEN ensureScore(h.scoreboard, cid, players[cid].name)[cid]
          ELSE h.scoreboard[cid]
      played == [cid \in ids |->
                   IF cid \in DOMAIN players
                     THEN [entry(cid) EXCEPT !.gamesPlayed = @ + 1] ELSE entry(cid)]
      scored == [cid \in ids |->
                   IF cid \in DOMAIN players /\ isWinner(cid)
                     THEN [played[cid] EXCEPT !.points = @ + 10, !.wins = @ + 1]
                     ELSE played[cid]]
  IN  [h EXCEPT !.scoreboard = scored,
                !.history = Append(@, [game |-> "mafia",
                                       winners |-> SelectSeq(playerList, isWinner),
                                       winnerTeam |-> winnerTeam])]

\* finishGame: the game and the hub after the winner is recorded
finishGame(h, m, winnerTeam) ==
  [mafia |-> [m EXCEPT !.winnerTeam = winnerTeam],
   hub |-> [awardPoints(h, m, winnerTeam) EXCEPT !.currentGame = "mafia"]]

clearedNight == [mafiaKill |-> Null, doctorSave |-> Null, detectiveCheck |-> Null]

resolveNightG(m) ==
  LET kill == m.night.mafiaKill
      save == m.night.doctorSave
      dies == kill # Null /\ kill # save
      m1 == IF dies THEN [m EXCEPT !.alive = Put(m.alive, kill, FALSE), !.keys = setKey(@, kill)]
            ELSE m
  IN  [m1 EXCEPT !.lastResult =
         [type |-> "night",
          died |-> IF dies THEN Person(kill) ELSE NoPerson,
          saved |-> IF save # Null THEN Person(save) ELSE NoPerson]]

\* counts[target] over the votes of alive voters for alive targets
countsOf(m, t) ==
  Cardinality({v \in DOMAIN m.votes : IsAlive(m, v) /\ IsAlive(m, m.votes[v]) /\ m.votes[v] = t})

resolveDayG(m) ==
  LET targets == {t \in DOMAIN m.alive : countsOf(m, t) > 0}
      tops == {t \in targets : \A u \in targets : countsOf(m, u) <= countsOf(m, t)}
      tie == Cardinality(tops) >= 2
      eliminated == IF targets # {} /\ ~tie THEN CHOOSE t \in tops : TRUE ELSE Null
      m1 == IF eliminated # Null THEN [m EXCEPT !.alive[eliminated] = FALSE] ELSE m
  IN  [m1 EXCEPT !.lastResult =
                    [type |-> "day", tie |-> tie,
                     eliminated |-> IF eliminated # Null THEN Person(eliminated) ELSE NoPerson],
                 !.votes = EmptyMap]

\* The else branch after a day that decided nothing.
nextRound(m) ==
  [m EXCEPT !.round = @ + 1, !.phase = "night", !.night = clearedNight, !.votes = EmptyMap]

\* resolveNight, checkWin and finishGame or the day, as mafia:next and
\* mafia:forceResolveNight run them
afterNight(h, m) ==
  LET m1 == resolveNightG(m)
      w == checkWin(m1)
  IN  IF w.over THEN finishGame(h, m1, w.winnerTeam)
      ELSE [mafia |-> [m1 EXCEPT !.phase = "day"], hub |-> h]

\* resolveDay, checkWin and finishGame or the next round
afterDay(h, m) ==
  LET m1 == resolveDayG(m)
      w == checkWin(m1)
  IN  IF w.over THEN finishGame(h, m1, w.winnerTeam)
      ELSE [mafia |-> nextRound(m1), hub |-> h]

rolesListG(n) ==
  LET first == Repeat("mafia", Max(1, (n - 1) \div 3)) \o <<"detective", "doctor">>
  IN  first \o Repeat("villager", Max(0, n - Len(first)))

newGameG(roles) ==
  [started |-> TRUE,
   phase |-> "role",
   round |-> 1,
   keys |-> playerList,
   assignments |-> [p \in DOMAIN players |-> roles[indexOf(playerList, p)]],
   alive |-> [p \in DOMAIN players |-> TRUE],
   night |-> clearedNight,
   votes |-> EmptyMap,
   lastResult |-> NoResult,
   investigationResult |-> EmptyMap,
   winnerTeam |-> Null]

\* The room after host:createRoom and the player:join of five players.
InitG ==
  /\ devMode = FALSE
  /\ hostSocketId = Conn(HostId).sid
  /\ players = [cid \in FiveIds |->
                  [clientId |-> cid, name |-> "Ann", ready |-> FALSE,
                   socketId |-> Conn(cid).sid]]
  /\ playerKeys = SubSeq(AllIds, 1, 5)
  /\ hub = [currentGame |-> Null,
            scoreboard |-> [cid \in FiveIds |-> NoScore(cid, "Ann")],
            history |-> <<>>]
  /\ mafia = NoGame
  /\ emitted = NoReply
  /\ registered = TRUE
  /\ rooms = EmptyMap
  /\ hostGoneTimer = Null
  /\ staleTimers = NoTimers

MafiaStartG(conn) ==
  LET n == Cardinality(DOMAIN players)
  IN  IF ~isHost(conn) THEN emitted' = NoReply /\ UNCHANGED room
      ELSE IF n < 5
        THEN /\ emitted' = [message |-> "NEED_5_PLAYERS"]
             /\ UNCHANGED room
        ELSE /\ \E roles \in Shuffles(rolesListG(n)) : mafia' = newGameG(roles)
             /\ hub' = [hub EXCEPT !.currentGame = "mafia"]
             /\ emitted' = NoReply
             /\ UNCHANGED <<devMode, hostSocketId, players, playerKeys>>

\* mafia:nightAction: the selection is stored; the detective's check also
\* stores its result and sends the calling socket its mafia:state
MafiaNightActionG(conn, cidRaw, action, targetId) ==
  LET id == trimName(pickId(cidRaw, conn.clientId))
      tgt == trimName(targetId)
      m == mafia
  IN  /\ mafia' =
           IF ~m.started THEN m
           ELSE IF m.phase # "night" \/ ~IsAlive(m, id) THEN m
           ELSE IF tgt = "" \/ ~IsAlive(m, tgt) THEN m
           ELSE IF action = "kill" /\ m.assignments[id] = "mafia"
             THEN [m EXCEPT !.night.mafiaKill = tgt]
           ELSE IF action = "save" /\ m.assignments[id] = "doctor"
             THEN [m EXCEPT !.night.doctorSave = tgt]
           ELSE IF action = "check" /\ m.assignments[id] = "detective"
             THEN [m EXCEPT !.night.detectiveCheck = tgt,
                            !.investigationResult =
                               Put(@, id, [targetId |-> tgt,
                                           isMafia |-> m.assignments[tgt] = "mafia"])]
           ELSE m
      /\ emitted' =
           IF /\ m.started /\ m.phase = "night" /\ IsAlive(m, id)
              /\ tgt # "" /\ IsAlive(m, tgt)
              /\ action = "check" /\ m.assignments[id] = "detective"
             THEN [message |-> "mafia:state", to |-> conn.sid]
             ELSE NoReply
      /\ UNCHANGED <<devMode, hostSocketId, players, playerKeys, hub>>

\* mafia:vote that records the vote and leaves the resolution to the host
MafiaVoteG_HostResolves(conn, cidRaw, targetId) ==
  LET id == trimName(pickId(cidRaw, conn.clientId))
      tgt == trimName(targetId)
      m == mafia
  IN  /\ mafia' = IF ~m.started THEN m
                  ELSE IF m.phase # "day" \/ ~IsAlive(m, id) THEN m
                  ELSE IF tgt = "" \/ ~IsAlive(m, tgt) THEN m
                  ELSE [m EXCEPT !.votes = Put(@, id, tgt)]
      /\ hub' = hub
      /\ emitted' = NoReply
      /\ UNCHANGED <<devMode, hostSocketId, players, playerKeys>>

MafiaVoteG(conn, cidRaw, targetId) ==
  LET id == trimName(pickId(cidRaw, conn.clientId))
      tgt == trimName(targetId)
      m == mafia
      m1 == [m EXCEPT !.votes = Put(@, id, tgt)]
      alive == alivePlayers(m1)
      votedCount == Cardinality({v \in alive : v \in DOMAIN m1.votes})
      out == IF ~m.started THEN [mafia |-> m, hub |-> hub]
             ELSE IF m.phase # "day" \/ ~IsAlive(m, id) THEN [mafia |-> m, hub |-> hub]
             ELSE IF tgt = "" \/ ~IsAlive(m, tgt) THEN [mafia |-> m, hub |-> hub]
             ELSE IF votedCount = Cardinality(alive) THEN afterDay(hub, m1)
             ELSE [mafia |-> m1, hub |-> hub]
  IN  /\ mafia' = out.mafia
      /\ hub' = out.hub
      /\ emitted' = NoReply
      /\ UNCHANGED <<devMode, hostSocketId, players, playerKeys>>

MafiaNextG(conn) ==
  LET m == mafia
      out == IF ~m.started \/ ~isHost(conn) THEN [mafia |-> m, hub |-> hub]
             ELSE IF m.winnerTeam # Null THEN [mafia |-> m, hub |-> hub]
             ELSE IF m.phase = "role"
               THEN [mafia |-> [m EXCEPT !.phase = "night", !.night = clearedNight,
                                         !.votes = EmptyMap, !.lastResult = NoResult],
                     hub |-> hub]
             ELSE IF m.phase = "night" THEN afterNight(hub, m)
             ELSE IF m.phase = "day" THEN afterDay(hub, m)
             ELSE [mafia |-> m, hub |-> hub]
  IN  /\ mafia' = out.mafia
      /\ hub' = out.hub
      /\ emitted' = NoReply
      /\ UNCHANGED <<devMode, hostSocketId, players, playerKeys>>

MafiaForceResolveNightG(conn) ==
  LET m == mafia
      out == IF ~m.started \/ ~isHost(conn) THEN [mafia |-> m, hub |-> hub]
             ELSE IF m.winnerTeam # Null \/ m.phase # "night" THEN [mafia |-> m, hub |-> hub]
             ELSE afterNight(hub, m)
  IN  /\ mafia' = out.mafia
      /\ hub' = out.hub
      /\ emitted' = NoReply
      /\ UNCHANGED <<devMode, hostSocketId, players, playerKeys>>

MafiaForceResolveDayG(conn) ==
  LET m == mafia
      out == IF ~m.started \/ ~isHost(conn) THEN [mafia |-> m, hub |-> hub]
             ELSE IF m.winnerTeam # Null \/ m.phase # "day" THEN [mafia |-> m, hub |-> hub]
             ELSE afterDay(hub, m)
  IN  /\ mafia' = out.mafia
      /\ hub' = out.hub
      /\ emitted' = NoReply
      /\ UNCHANGED <<devMode, hostSocketId, players, playerKeys>>

\* mafia:backToLobby only announces hub:lobby to the room.
MafiaBackToLobbyG(conn) ==
  /\ emitted' = NoReply
  /\ UNCHANGED room

\* The game events are followed while the round and the history are in bound.
\* The night targets e; a, b, c and d vote, for a or b.
InBoundG == RoundInBound(mafia, MaxRound) /\ Len(hub.history) < MaxHistory

\* A game is started, or started over from its role phase, while no game of
\* the room has ended.
StartG ==
  /\ hub.history = <<>>
  /\ mafia.started => mafia.phase = "role"
  /\ \E conn \in HostConns : MafiaStartG(conn)

AdvanceG == InBoundG /\ \E conn \in HostConns : MafiaNextG(conn)

ForceNightG == InBoundG /\ \E conn \in HostConns : MafiaForceResolveNightG(conn)

ForceDayG == InBoundG /\ \E conn \in HostConns : MafiaForceResolveDayG(conn)

NightActionG ==
  /\ InBoundG
  /\ \E actor \in OwnConns(FiveIds), action \in {"kill", "save", "check"}, targetId \in {"e"} :
       MafiaNightActionG(actor[1], actor[2], action, targetId)

VoteG ==
  /\ InBoundG
  /\ \E actor \in OwnConns(FourIds), targetId \in {"a", "b"} :
       MafiaVoteG(actor[1], actor[2], targetId)

BackToLobbyG == \E conn \in HostConns : MafiaBackToLobbyG(conn)

NextG ==
  \/ StartG /\ UNCHANGED lifeVars
  \/ AdvanceG /\ UNCHANGED lifeVars
  \/ ForceNightG /\ UNCHANGED lifeVars
  \/ ForceDayG /\ UNCHANGED lifeVars
  \/ NightActionG /\ UNCHANGED lifeVars
  \/ VoteG /\ UNCHANGED lifeVars
  \/ BackToLobbyG /\ UNCHANGED lifeVars

SpecG == InitG /\ [][NextG]_vars

\* C10: point awarding runs once per game instance: once the instance has a
\* winner, no later event on that instance adds a history entry or changes
\* the scoreboard.
C10_AwardOncePerGame ==
  [][(mafia.started /\ mafia.winnerTeam # Null /\ mafia'.started /\ mafia'.winnerTeam # Null) =>
       /\ hub'.history = hub.history
       /\ hub'.scoreboard = hub.scoreboard]_vars

\* A decided game whose points were awarded once.
C10_Witness ==
  /\ mafia.started /\ mafia.winnerTeam # Null
  /\ Len(hub.history) = 1
(***************************************************************************)
(* The grace-timer implementation: host absence.  The room of the model    *)
(* has the code RoomCode; hostGoneTimer stands for the timer that the      *)
(* event loop holds for this code, so it stays pending when host:createRoom *)
(* deletes the room without clearing it.                                   *)
(***************************************************************************)
CodeInputs == {"ABCD", " ab-cd", "WXYZ"}

\* trim, upper case, strip non-alphanumerics, first 8, on the CodeInputs
normalizeRoomG(x) == IF x = " ab-cd" THEN "ABCD" ELSE x

\* A second connection of client c (a page reload).
Conn2(c) == [sid |-> "t_" \o c, clientId |-> c]

\* The room that host:createRoom stores in the rooms map.  Of the rooms other
\* than the followed one the host binding, the timer and the identities of
\* the players are followed, the hub and the game are not.
newRoomG(conn) ==
  [hostClientId |-> conn.clientId, hostSocketId |-> conn.sid,
   hostGoneTimer |-> Null, players |-> {}]

\* isHost(room, socket) for a room of the rooms map
isHostOf(r, conn) == conn.clientId # "" /\ conn.clientId = r.hostClientId

\* io.to(code).emit("room:closed", {reason})
roomClosed(code, reason) == [message |-> "room:closed", to |-> code, reason |-> reason]

\* The timers of the event loop after rooms.delete of the rooms `codes`: the
\* timer of a deleted room is not cleared.
staleAfterDelete(st, rs, codes) ==
  [c \in CodesG |->
     st[c] + (IF c \in codes /\ c \in DOMAIN rs /\ rs[c].hostGoneTimer = "pending"
                THEN 1 ELSE 0)]

\* host:attach without the clearTimeout
HostAttachG_KeepTimer(conn, roomCode) ==
  LET code == normalizeRoomG(roomCode)
  IN  IF registered /\ code = RoomCode
        THEN IF ~isHost(conn)
               THEN emitted' = [message |-> "NOT_HOST"] /\ UNCHANGED <<room, lifeVars>>
               ELSE /\ hostSocketId' = conn.sid
                    /\ emitted' = [message |-> "host:attached"]
                    /\ UNCHANGED <<devMode, players, playerKeys, hub, mafia, lifeVars>>
      ELSE IF code \in DOMAIN rooms
        THEN IF ~isHostOf(rooms[code], conn)
               THEN emitted' = [message |-> "NOT_HOST"] /\ UNCHANGED <<room, lifeVars>>
               ELSE /\ rooms' = [rooms EXCEPT ![code].hostSocketId = conn.sid]
                    /\ emitted' = [message |-> "host:attached"]
                    /\ UNCHANGED <<room, registered, hostGoneTimer, staleTimers>>
      ELSE emitted' = [message |-> "ROOM_NOT_FOUND"] /\ UNCHANGED <<room, lifeVars>>

\* host:attach: rooms.get(code) finds the followed room or another room of
\* the map; the client that hosts it clears its timer and binds the socket.
HostAttachG(conn, roomCode) ==
  LET code == normalizeRoomG(roomCode)
  IN  IF registered /\ code = RoomCode
        THEN IF ~isHost(conn)
               THEN emitted' = [message |-> "NOT_HOST"] /\ UNCHANGED <<room, lifeVars>>
               ELSE /\ hostGoneTimer' = Null
                    /\ hostSocketId' = conn.sid
                    /\ emitted' = [message |-> "host:attached"]
                    /\ UNCHANGED <<devMode, players, playerKeys, hub, mafia,
                                   registered, rooms, staleTimers>>
      ELSE IF code \in DOMAIN rooms
        THEN IF ~isHostOf(rooms[code], conn)
               THEN emitted' = [message |-> "NOT_HOST"] /\ UNCHANGED <<room, lifeVars>>
               ELSE /\ rooms' = [rooms EXCEPT ![code].hostGoneTimer = Null,
                                              ![code].hostSocketId = conn.sid]
                    /\ emitted' = [message |-> "host:attached"]
                    /\ UNCHANGED <<room, registered, hostGoneTimer, staleTimers>>
      ELSE emitted' = [message |-> "ROOM_NOT_FOUND"] /\ UNCHANGED <<room, lifeVars>>

\* The rooms of the map, other than the followed one, whose host socket is sid.
\* A client hosts at most one room (host:createRoom deletes its earlier ones)
\* and a socket belongs to one client.
hostedBy(sid) == {code \in DOMAIN rooms : rooms[code].hostSocketId = sid}

\* disconnect whose timer callback runs at once
DisconnectG_NoGrace(conn) ==
  IF registered /\ hostSocketId = conn.sid
    THEN /\ hostSocketId' = Null
         /\ registered' = FALSE
         /\ emitted' = roomClosed(RoomCode, "host_timeout")
         /\ UNCHANGED <<devMode, players, playerKeys, hub, mafia, hostGoneTimer,
                        rooms, staleTimers>>
  ELSE IF hostedBy(conn.sid) # {}
    THEN /\ rooms' = [code \in DOMAIN rooms \ hostedBy(conn.sid) |-> rooms[code]]
         /\ emitted' = roomClosed(CHOOSE code \in hostedBy(conn.sid) : TRUE, "host_timeout")
         /\ UNCHANGED <<room, registered, hostGoneTimer, staleTimers>>
  ELSE /\ players' = [cid \in DOMAIN players |->
                        IF registered /\ players[cid].socketId = conn.sid
                          THEN [players[cid] EXCEPT !.socketId = Null]
                          ELSE players[cid]]
       /\ emitted' = NoReply
       /\ UNCHANGED <<devMode, hostSocketId, playerKeys, hub, mafia, lifeVars>>

\* disconnect: the first loop looks for a room of the map whose host socket
\* this is, arms the timer of that room and returns; otherwise the player
\* entries bound to the socket lose their socketId.
DisconnectG(conn) ==
  IF registered /\ hostSocketId = conn.sid
    THEN /\ hostSocketId' = Null
         /\ hostGoneTimer' = "pending"
         /\ emitted' = NoReply
         /\ UNCHANGED <<devMode, players, playerKeys, hub, mafia, registered,
                        rooms, staleTimers>>
  ELSE IF hostedBy(conn.sid) # {}
    THEN /\ rooms' = [code \in DOMAIN rooms |->
                        IF code \in hostedBy(conn.sid)
                          THEN [rooms[code] EXCEPT !.hostSocketId = Null,
                                                   !.hostGoneTimer = "pending"]
                          ELSE rooms[code]]
         /\ emitted' = NoReply
         /\ UNCHANGED <<room, registered, hostGoneTimer, staleTimers>>
  ELSE /\ players' = [cid \in DOMAIN players |->
                        IF registered /\ players[cid].socketId = conn.sid
                          THEN [players[cid] EXCEPT !.socketId = Null]
                          ELSE players[cid]]
       /\ emitted' = NoReply
       /\ UNCHANGED <<devMode, hostSocketId, playerKeys, hub, mafia, lifeVars>>

\* The callback of the 90 s timer of the followed room: rooms.delete(code)
\* and room:closed.  The room has the code when the callback runs, whichever
\* room that is.
HostGoneTimeout ==
  /\ hostGoneTimer = "pending"
  /\ hostGoneTimer' = Null
  /\ registered' = FALSE
  /\ rooms' = Remove(rooms, RoomCode)
  /\ staleTimers' = staleAfterDelete(staleTimers, rooms, {RoomCode})
  /\ emitted' = roomClosed(RoomCode, "host_timeout")
  /\ UNCHANGED room

\* The callback of the timer of another room of the map.
RoomTimeoutG(code) ==
  /\ code \in DOMAIN rooms
  /\ rooms[code].hostGoneTimer = "pending"
  /\ rooms' = Remove(rooms, code)
  /\ registered' = (registered /\ code # RoomCode)
  /\ emitted' = roomClosed(code, "host_timeout")
  /\ UNCHANGED <<room, hostGoneTimer, staleTimers>>

\* The callback of the timer of a room that was deleted before it ran.
StaleTimeoutG(code) ==
  /\ staleTimers[code] > 0
  /\ rooms' = Remove(rooms, code)
  /\ staleTimers' = [staleAfterDelete(staleTimers, rooms, {code}) EXCEPT ![code] = @ - 1]
  /\ registered' = (registered /\ code # RoomCode)
  /\ emitted' = roomClosed(code, "host_timeout")
  /\ UNCHANGED <<room, hostGoneTimer>>

\* createUniqueRoom: makeRoomCode(4) is drawn until the code is not a key of
\* the rooms map; any free code of the CodesG can be the result.
createUniqueRoom(kept, registered1) ==
  {code \in CodesG : code \notin DOMAIN kept /\ ~(registered1 /\ code = RoomCode)}

\* host:createRoom: every room of the calling client is deleted and sent
\* room:closed{host_recreated} (its timer is left as it is), a new room is
\* stored under a free code and the caller is sent room:created.
HostCreateRoomG(conn) ==
  IF conn.clientId = ""
    THEN emitted' = NoReply /\ UNCHANGED <<room, lifeVars>>
    ELSE LET mine == {code \in DOMAIN rooms : rooms[code].hostClientId = conn.clientId}
             kept == [code \in DOMAIN rooms \ mine |-> rooms[code]]
             own == registered /\ conn.clientId = HostId
             registered1 == registered /\ ~own
             stale1 == staleAfterDelete(staleTimers, rooms, mine)
         IN  /\ \A c \in CodesG :
                  stale1[c] + (IF c = RoomCode /\ hostGoneTimer = "pending" THEN 1 ELSE 0)
                    <= MaxStale
             /\ \E code \in createUniqueRoom(kept, registered1) :
                  /\ rooms' = Put(kept, code, newRoomG(conn))
                  /\ registered' = registered1
                  /\ staleTimers' = stale1
                  /\ emitted' = [message |-> "room:created", roomCode |-> code,
                                 closed |-> mine \cup (IF own THEN {RoomCode} ELSE {})]
                  /\ UNCHANGED <<room, hostGoneTimer>>

GameInputsG == {"mafia", " Mafia ", ""}

\* String(game || "").trim() on the GameInputsG
trimGame(game) == IF game = " Mafia " THEN "Mafia" ELSE game

\* hub:setGame: room.hub.currentGame = String(game || "").trim() || null
HubSetGameG(conn, roomCode, game) ==
  IF ~registered \/ normalizeRoomG(roomCode) # RoomCode \/ ~isHost(conn)
    THEN emitted' = NoReply /\ UNCHANGED <<room, lifeVars>>
    ELSE /\ hub' = [hub EXCEPT !.currentGame = IF trimGame(game) = "" THEN Null
                                                ELSE trimGame(game)]
         /\ emitted' = NoReply
         /\ UNCHANGED <<devMode, hostSocketId, players, playerKeys, mafia, lifeVars>>

HostConnsG == {Conn(HostId), Conn2(HostId), Conn("a")}

SetGameT ==
  \E conn \in {Conn(HostId), Conn("a")}, roomCode \in CodeInputs, game \in GameInputsG :
    HubSetGameG(conn, roomCode, game)

AttachT == \E conn \in HostConnsG, roomCode \in CodeInputs : HostAttachG(conn, roomCode)

DropT == \E conn \in HostConnsG : DisconnectG(conn)

CreateRoomT == \E conn \in {Conn2(HostId), Conn("a")} : HostCreateRoomG(conn)

\* Three of the deals of mafia:start for the players a to e: the night
\* target e is a villager, the mafia member or the doctor.
DealsG ==
  { <<"mafia", "detective", "doctor", "villager", "villager">>,
    <<"villager", "villager", "detective", "doctor", "mafia">>,
    <<"detective", "mafia", "villager", "villager", "doctor">> }

\* mafia:start of the host where the shuffle leaves one of the DealsG.
StartT == registered /\ StartG /\ \E roles \in DealsG : mafia' = newGameG(roles)

\* mafia:start addressed to a room of the map other than the followed one,
\* while that room holds fewer than five players.
MafiaStartOtherG(conn, roomCode) ==
  LET code == normalizeRoomG(roomCode)
  IN  /\ ~(registered /\ code = RoomCode)
      /\ code \in DOMAIN rooms
      /\ Cardinality(rooms[code].players) < 5
      /\ emitted' = IF isHostOf(rooms[code], conn) THEN [message |-> "NEED_5_PLAYERS"]
                                                   ELSE NoReply
      /\ UNCHANGED <<room, lifeVars>>

StartOtherT ==
  \E conn \in {Conn2(HostId), Conn("a")}, roomCode \in CodeInputs :
    MafiaStartOtherG(conn, roomCode)

RoomTimeoutT == \E code \in CodesG : RoomTimeoutG(code)

StaleTimeoutT == \E code \in CodesG : StaleTimeoutG(code)

\* The game events sent to a room that has been removed are not followed.
NextT ==
  \/ StartT /\ UNCHANGED lifeVars
  \/ registered /\ AdvanceG /\ UNCHANGED lifeVars
  \/ AttachT
  \/ DropT
  \/ CreateRoomT
  \/ HostGoneTimeout
  \/ RoomTimeoutT
  \/ StaleTimeoutT
  \/ StartOtherT

SpecT == InitG /\ [][NextT]_vars

\* The timer of setTimeout runs its callback unless it is cleared.
SpecTFair == SpecT /\ WF_vars(HostGoneTimeout)
(***************************************************************************)
(* C11: a host:attach by the host while the host-absence timer is pending  *)
(* cancels the timer and binds the host socket to the caller; the players, *)
(* the hub, the game and the registry entry are unchanged.  A room whose   *)
(* host is bound holds no pending timer, and the timer only ever removes a *)
(* room whose host is absent.                                              *)
(***************************************************************************)
C11_AttachStep ==
  \A conn \in HostConnsG, roomCode \in CodeInputs :
    ( /\ registered /\ hostGoneTimer = "pending"
      /\ isHost(conn) /\ normalizeRoomG(roomCode) = RoomCode
      /\ HostAttachG(conn, roomCode) )
    => /\ hostGoneTimer' = Null
       /\ hostSocketId' = conn.sid
       /\ UNCHANGED <<devMode, players, playerKeys, hub, mafia, registered>>

C11_TimerOnlyWhileAbsent ==
  (registered /\ hostSocketId # Null) => hostGoneTimer = Null

C11_AttachCancelsTimer ==
  /\ [](C11_TimerOnlyWhileAbsent)
  /\ [][C11_AttachStep /\ (HostGoneTimeout /\ registered => hostSocketId = Null)]_vars

C11_Witness ==
  /\ registered /\ mafia.started
  /\ hostSocketId = Conn2(HostId).sid
  /\ hostGoneTimer = Null
  /\ emitted = [message |-> "host:attached"]
(***************************************************************************)
(* C12: once the host connection has disconnected and the timer is         *)
(* pending, either the host attaches again or the room is removed and      *)
(* room:closed{host_timeout} is emitted.  The disconnect itself leaves the *)
(* players, the hub and the game as they are.  As stated, the room is      *)
(* removed by nothing but the firing timer (C12_RoomStaysUntilTimeout);    *)
(* the code also removes it, with room:closed{host_recreated}, when the    *)
(* host client creates a new room (C12_TimeoutOrRecreate).                 *)
(***************************************************************************)
TimeoutClosed == roomClosed(RoomCode, "host_timeout")

\* The reply of the host:createRoom that closed the room ABCD.
RecreateClosed == emitted.message = "room:created" /\ RoomCode \in emitted.closed

C12_Eventually ==
  (hostGoneTimer = "pending")
    ~> ((registered /\ hostSocketId # Null) \/ (~registered /\ emitted = TimeoutClosed))

C12_HostDropKeepsRoom ==
  \A conn \in HostConnsG :
    (registered /\ hostSocketId = conn.sid /\ DisconnectG(conn))
      => /\ hostGoneTimer' = "pending" /\ hostSocketId' = Null
         /\ UNCHANGED <<devMode, players, playerKeys, hub, mafia, registered>>

C12_EndsAbsence ==
  (registered /\ hostGoneTimer = "pending")
    ~> \/ registered /\ hostSocketId # Null
       \/ ~registered /\ emitted = TimeoutClosed
       \/ ~registered /\ RecreateClosed

CodeInputsA == {"ABCD", " abcd", "WXYZ"}

\* String(roomCode || '').trim().toUpperCase() on the inputs of CodeInputsA
normalizeRoom(x) == IF x = " abcd" THEN "ABCD" ELSE x

GameInputs == {"mafia", " Mafia ", ""}

HostAttach(conn, roomCode) ==
  IF normalizeRoom(roomCode) # RoomCode
    THEN emitted' = [message |-> "ROOM_NOT_FOUND"] /\ UNCHANGED room
  ELSE IF ~isHost(conn)
    THEN emitted' = [message |-> "NOT_HOST"] /\ UNCHANGED room
  ELSE /\ hostSocketId' = conn.sid
       /\ emitted' = [message |-> "host:attached"]
       /\ UNCHANGED <<devMode, players, playerKeys, hub, mafia>>

\* String(name || '').trim().slice(0, 20) || 'Host'
hostName(name) == IF trimName(name) = "" THEN "Host" ELSE trimName(name)

HostJoinAsPlayer(conn, roomCode, name) ==
  IF normalizeRoom(roomCode) # RoomCode
    THEN emitted' = [message |-> "ROOM_NOT_FOUND"] /\ UNCHANGED room
  ELSE IF ~isHost(conn)
    THEN emitted' = [message |-> "NOT_HOST"] /\ UNCHANGED room
  ELSE /\ players' = Put(players, conn.clientId,
                         [clientId |-> conn.clientId, name |-> hostName(name),
                          ready |-> FALSE, socketId |-> conn.sid])
       /\ playerKeys' = setKey(playerKeys, conn.clientId)
       /\ hub' = [hub EXCEPT !.scoreboard = ensureScoreA(@, conn.clientId)]
       /\ emitted' = joinedReply("host:joinedAsPlayer", conn.sid, RoomCode,
                                  roleMessage(mafia, players', conn.clientId))
       /\ UNCHANGED <<devMode, hostSocketId, mafia>>

\* player:attach that sends the role to every bound socket of the room
PlayerAttach_Broadcast(conn, roomCode, attachId) ==
  LET cid == pickId(attachId, conn.clientId)
  IN  IF cid = "" THEN emitted' = NoReply /\ UNCHANGED room
      ELSE IF normalizeRoom(roomCode) # RoomCode
        THEN emitted' = [message |-> "room:closed"] /\ UNCHANGED room
      ELSE IF cid \notin DOMAIN players
        THEN emitted' = [message |-> "NOT_IN_ROOM"] /\ UNCHANGED room
      ELSE /\ players' = [players EXCEPT ![cid].socketId = conn.sid]
           /\ emitted' = IF mafia.started /\ cid \in DOMAIN mafia.assignments
                           THEN [message |-> "mafia:role", to |-> "room",
                                 role |-> mafia.assignments[cid]]
                           ELSE NoReply
           /\ UNCHANGED <<devMode, hostSocketId, playerKeys, hub, mafia>>

\* player:attach that admits an identity the room does not know
PlayerAttach_Upsert(conn, roomCode, attachId) ==
  LET cid == pickId(attachId, conn.clientId)
  IN  IF cid = "" THEN emitted' = NoReply /\ UNCHANGED room
      ELSE IF normalizeRoom(roomCode) # RoomCode
        THEN emitted' = [message |-> "room:closed"] /\ UNCHANGED room
      ELSE /\ players' = Put(players, cid,
                             [clientId |-> cid, name |-> "Player", ready |-> FALSE,
                              socketId |-> conn.sid])
           /\ playerKeys' = setKey(playerKeys, cid)
           /\ emitted' = roleMessage(mafia, players', cid)
           /\ UNCHANGED <<devMode, hostSocketId, hub, mafia>>

PlayerAttach(conn, roomCode, attachId) ==
  LET cid == pickId(attachId, conn.clientId)
  IN  IF cid = "" THEN emitted' = NoReply /\ UNCHANGED room
      ELSE IF normalizeRoom(roomCode) # RoomCode
        THEN emitted' = [message |-> "room:closed"] /\ UNCHANGED room
      ELSE IF cid \notin DOMAIN players
        THEN emitted' = [message |-> "NOT_IN_ROOM"] /\ UNCHANGED room
      ELSE /\ players' = [players EXCEPT ![cid].socketId = conn.sid]
           /\ emitted' = roleMessage(mafia, players', cid)
           /\ UNCHANGED <<devMode, hostSocketId, playerKeys, hub, mafia>>

HubSetGame(conn, game) ==
  IF ~isHost(conn) THEN emitted' = NoReply /\ UNCHANGED room
  ELSE LET g == IF trimLower(game) = "" THEN Null ELSE trimLower(game)
       IN  /\ hub' = [hub EXCEPT !.currentGame = g,
                                 !.history = Append(@, [type |-> "setGame", game |-> g])]
           /\ emitted' = NoReply
           /\ UNCHANGED <<devMode, hostSocketId, players, playerKeys, mafia>>

\* The list of mafia:reveal: Object.keys(m.assignments).map(...)
revealList(m) ==
  LET ids == m.keys
  IN  [i \in 1..Len(ids) |->
         [clientId |-> ids[i], name |-> nameOf(ids[i]),
          role |-> m.assignments[ids[i]], alive |-> IsAlive(m, ids[i])]]

\* mafia:revealAll without the test of devMode
MafiaRevealAll_HostOnly(conn) ==
  /\ emitted' = IF ~mafia.started \/ ~isHost(conn) THEN NoReply
                ELSE [message |-> "mafia:reveal", to |-> conn.sid, list |-> revealList(mafia)]
  /\ UNCHANGED room

MafiaRevealAll(conn) ==
  /\ emitted' = IF ~mafia.started \/ ~isHost(conn) \/ ~devMode THEN NoReply
                ELSE [message |-> "mafia:reveal", to |-> conn.sid, list |-> revealList(mafia)]
  /\ UNCHANGED room

(***************************************************************************)
(* SpecLife: connections come and go around a game of two players that     *)
(* the host starts, advances and sends back to the lobby.                  *)
(***************************************************************************)
LifeIds == {"a", "b", "c"}

InitLife ==
  /\ devMode = TRUE
  /\ hostSocketId = Conn(HostId).sid
  /\ players = [cid \in LifeIds |->
                  [clientId |-> cid, name |-> "Ann", ready |-> FALSE,
                   socketId |-> Conn(cid).sid]]
  /\ playerKeys = SubSeq(AllIds, 1, 3)
  /\ hub = [NoHub EXCEPT !.scoreboard = [cid \in LifeIds |-> 0]]
  /\ mafia = NoGame
  /\ emitted = NoReply
  /\ registered = TRUE
  /\ rooms = EmptyMap
  /\ hostGoneTimer = Null
  /\ staleTimers = NoTimers

PlayerConnsA == {Conn("a"), Conn2("a"), Conn("b")}

AttachIds == {"", "a", "z"}

AttachHost == \E conn \in HostConns, roomCode \in CodeInputsA : HostAttach(conn, roomCode)

JoinAsPlayer(conns) ==
  \E conn \in conns, roomCode \in CodeInputsA, name \in {"Ann", ""} :
    HostJoinAsPlayer(conn, roomCode, name)

AttachPlayer ==
  \E conn \in PlayerConnsA, roomCode \in {" abcd", "WXYZ"}, attachId \in AttachIds :
    PlayerAttach(conn, roomCode, attachId)

SetGame ==
  hub.history = <<>> /\ \E conn \in HostConns, game \in GameInputs : HubSetGame(conn, game)

\* A return to the lobby may follow a hub:setGame.
BackToLobbyA ==
  Len(hub.history) <= MaxReturns /\ \E conn \in HostConns : MafiaBackToLobby(conn)

DropA == \E conn \in PlayerConnsA \cup {Conn(HostId)} : Disconnect(conn)

\* host:setDevMode from a connection of player a
GuestSetDevMode == \E enabled \in BOOLEAN : HostSetDevMode(Conn("a"), enabled)

NextLife ==
  \/ GuestSetDevMode /\ UNCHANGED lifeVars
  \/ ~mafia.started /\ Start /\ UNCHANGED lifeVars
  \/ Advance(MaxRound) /\ UNCHANGED lifeVars
  \/ ForceNight(MaxRound) /\ UNCHANGED lifeVars
  \/ ForceDay(MaxRound) /\ UNCHANGED lifeVars
  \/ AttachHost /\ UNCHANGED lifeVars
  \/ JoinAsPlayer({Conn("a")}) /\ UNCHANGED lifeVars
  \/ AttachPlayer /\ UNCHANGED lifeVars
  \/ SetGame /\ UNCHANGED lifeVars
  \/ DropA /\ UNCHANGED lifeVars
  \/ BackToLobbyA /\ UNCHANGED lifeVars

SpecLife == InitLife /\ [][NextLife]_vars

(***************************************************************************)
(* C13: a disconnect removes no player entry and changes neither the game  *)
(* nor the hub (scoreboard, history) nor devMode; it only sets to null the *)
(* socketId of the player entries, and the hostSocketId, bound to the      *)
(* disconnecting socket.                                                   *)
(***************************************************************************)
C13_DisconnectOnlyUnbinds ==
  [][ \A conn \in PlayerConnsA \cup {Conn(HostId)} :
        Disconnect(conn) =>
          /\ DOMAIN players' = DOMAIN players
          /\ \A cid \in DOMAIN players :
               /\ players'[cid].clientId = players[cid].clientId
               /\ players'[cid].name = players[cid].name
               /\ players'[cid].ready = players[cid].ready
               /\ players'[cid].socketId =
                    IF players[cid].socketId = conn.sid THEN Null ELSE players[cid].socketId
          /\ hostSocketId' = IF hostSocketId = conn.sid THEN Null ELSE hostSocketId
          /\ UNCHANGED <<devMode, hub, mafia>> ]_vars

C13_Witness ==
  /\ mafia.started /\ mafia.phase = "night"
  /\ hostSocketId = Null
  /\ players["a"].socketId = Null
  /\ players["b"].socketId # Null
  /\ DOMAIN players = DOMAIN mafia.assignments
(***************************************************************************)
(* C14: in a started game, player:attach for a disconnected player X that  *)
(* holds a role binds X's entry to the calling socket, changes nothing     *)
(* else of the room, and sends mafia:role with X's role to that socket and *)
(* to no other.  As stated, no entry of another identity is bound to the   *)
(* receiving socket (C14_RoleToNoOtherIdentity); the handler takes X from  *)
(* the payload, so the calling socket may also be the socket of another    *)
(* player's entry (C14_RoleToAttachingSocket).                             *)
(***************************************************************************)
AttachOfDisconnected(conn, roomCode, attachId, cid) ==
  /\ cid = pickId(attachId, conn.clientId)
  /\ normalizeRoom(roomCode) = RoomCode
  /\ mafia.started
  /\ cid \in DOMAIN players /\ cid \in DOMAIN mafia.assignments
  /\ players[cid].socketId = Null
  /\ PlayerAttach(conn, roomCode, attachId)

AttachRebinds(conn, cid) ==
  /\ players' = [players EXCEPT ![cid].socketId = conn.sid]
  /\ UNCHANGED <<devMode, hostSocketId, hub, mafia>>
  /\ emitted' = [message |-> "mafia:role", to |-> conn.sid, role |-> mafia.assignments[cid]]

C14_RoleToNoOtherIdentity ==
  [][ (mafia.started /\ players' # players) =>
      \A conn \in PlayerConnsA, roomCode \in {" abcd", "WXYZ"}, attachId \in AttachIds, cid \in DOMAIN players :
        AttachOfDisconnected(conn, roomCode, attachId, cid)
          => /\ AttachRebinds(conn, cid)
             /\ \A other \in DOMAIN players \ {cid} : players'[other].socketId # emitted'.to ]_vars

C14_RoleToAttachingSocket ==
  [][ (mafia.started /\ players' # players) =>
      \A conn \in PlayerConnsA, roomCode \in {" abcd", "WXYZ"}, attachId \in AttachIds, cid \in DOMAIN players :
        AttachOfDisconnected(conn, roomCode, attachId, cid)
          => /\ AttachRebinds(conn, cid)
             /\ players'[cid].socketId = emitted'.to ]_vars

C14_Witness ==
  /\ mafia.started /\ "a" \in DOMAIN mafia.assignments
  /\ players["a"].socketId = Conn2("a").sid
  /\ emitted = [message |-> "mafia:role", to |-> Conn2("a").sid, role |-> mafia.assignments["a"]]
(***************************************************************************)
(* C15: player:attach for an identity that is not in the room's player set *)
(* is answered with NOT_IN_ROOM and changes nothing of the room: no entry  *)
(* is created, no socket is bound, the game is as before.  player:attach   *)
(* for a code that names no room changes nothing of this room.             *)
(***************************************************************************)
C15_UnknownAttachRejected ==
  [][ \A conn \in PlayerConnsA, roomCode \in {" abcd", "WXYZ"}, attachId \in AttachIds :
        LET cid == pickId(attachId, conn.clientId)
        IN  /\ ( /\ normalizeRoom(roomCode) = RoomCode
                 /\ cid # "" /\ cid \notin DOMAIN players
                 /\ PlayerAttach(conn, roomCode, attachId) )
              => (emitted' = [message |-> "NOT_IN_ROOM"] /\ UNCHANGED room)
            /\ ( /\ normalizeRoom(roomCode) # RoomCode
                 /\ PlayerAttach(conn, roomCode, attachId) )
              => UNCHANGED room ]_vars

C15_Witness ==
  /\ mafia.started /\ mafia.phase = "day"
  /\ "z" \notin DOMAIN players
  /\ emitted = [message |-> "NOT_IN_ROOM"]
(***************************************************************************)
(* C18: each host-only event (host:setDevMode, hub:setGame, mafia:start,   *)
(* mafia:next, mafia:forceResolveNight, mafia:forceResolveDay,             *)
(* mafia:backToLobby, host:attach, host:joinAsPlayer) sent by a connection *)
(* whose client identity is not the room's hostClientId leaves devMode,    *)
(* the hub, the player set, the host binding and the game unchanged.       *)
(***************************************************************************)
GuestConns == {Conn("a"), Conn("b")}

HostOnlyEvent(conn) ==
  \/ \E enabled \in BOOLEAN : HostSetDevMode(conn, enabled)
  \/ \E game \in GameInputs : HubSetGame(conn, game)
  \/ MafiaStart(conn)
  \/ MafiaNext(conn)
  \/ MafiaForceResolveNight(conn)
  \/ MafiaForceResolveDay(conn)
  \/ MafiaBackToLobby(conn)
  \/ \E roomCode \in CodeInputsA : HostAttach(conn, roomCode)
  \/ \E roomCode \in CodeInputsA, name \in {"Ann", ""} : HostJoinAsPlayer(conn, roomCode, name)

C18_GuestChangesNothing ==
  [][ UNCHANGED room \/ \A conn \in GuestConns : ~HostOnlyEvent(conn) ]_vars

C18_Witness ==
  /\ mafia.started /\ mafia.phase = "day"
  /\ hostSocketId = Conn(HostId).sid
  /\ devMode
  /\ emitted = [message |-> "NOT_HOST"]
(***************************************************************************)
(* C20: mafia:backToLobby by the host sets room.mafia to null; the room    *)
(* stays in the rooms map, the players and the host binding are unchanged, *)
(* every scoreboard entry keeps its value and the history is the old       *)
(* history with one entry appended.  While no game is started, night       *)
(* actions, votes, advances and forced resolutions change nothing.         *)
(***************************************************************************)
C20_ReturnStep ==
  \A conn \in HostConns :
    (isHost(conn) /\ MafiaBackToLobby(conn))
      => /\ mafia' = NoGame
         /\ registered' /\ registered
         /\ UNCHANGED <<players, playerKeys, hostSocketId, devMode>>
         /\ hub'.scoreboard = hub.scoreboard
         /\ Len(hub'.history) = Len(hub.history) + 1
         /\ SubSeq(hub'.history, 1, Len(hub.history)) = hub.history

C20_NoGameNoMoves ==
  ~mafia.started =>
    /\ \A cid \in LifeIds \cup {HostId}, targetId \in LifeIds :
         /\ voteResult(mafia, cid, targetId) = mafia
         /\ \A action \in ActionInputs : nightActionResult(mafia, cid, action, targetId) = mafia
    /\ \A conn \in HostConns :
         (MafiaNext(conn) \/ MafiaForceResolveNight(conn) \/ MafiaForceResolveDay(conn))
           => mafia' = NoGame

C20_BackToLobbyKeepsRoom ==
  [][ C20_ReturnStep /\ C20_NoGameNoMoves ]_vars

C20_Witness ==
  /\ mafia = NoGame
  /\ Len(hub.history) = 2 /\ hub.history[1].type = "setGame" /\ hub.history[2].type = "backToLobby"
  /\ hub.currentGame = Null
  /\ DOMAIN hub.scoreboard = LifeIds
  /\ players["a"].socketId = Null
(***************************************************************************)
(* C17: by the host, mafia:forceResolveNight in an undecided night and     *)
(* mafia:forceResolveDay in an undecided day lead to the state mafia:next  *)
(* leads to from the same state; in every other state (another phase, a    *)
(* winner set, no game started) they leave the room as it is.              *)
(***************************************************************************)
C17_ForceLikeNext ==
  [][ /\ MafiaForceResolveNight(Host)
           => IF Undecided /\ mafia.phase = "night" THEN MafiaNext(Host) ELSE UNCHANGED room
      /\ MafiaForceResolveDay(Host)
           => IF Undecided /\ mafia.phase = "day" THEN MafiaNext(Host) ELSE UNCHANGED room ]_vars

C17_Witness ==
  /\ Undecided /\ mafia.phase = "day" /\ mafia.round = 1
  /\ mafia.lastResult = [type |-> "night", died |-> NoPerson]
  /\ Cardinality(DOMAIN mafia.alive) = 3
  /\ hub.history = <<>>
(***************************************************************************)
(* SpecSilent: a started game of three players in which any player may     *)
(* disconnect, act or stay silent while the host advances.                 *)
(***************************************************************************)
SilentTargets == {"a", "b", "c"}

NextSilent ==
  \/ ~mafia.started /\ Start /\ UNCHANGED lifeVars
  \/ Advance(MaxRound) /\ UNCHANGED lifeVars
  \/ NightAction(OwnConns(LifeIds), {"kill", "Save "}, SilentTargets, MaxRound) /\ UNCHANGED lifeVars
  \/ Vote(OwnConns(LifeIds), SilentTargets, MaxRound) /\ UNCHANGED lifeVars
  \/ Drop({"a", "b", "c", HostId}) /\ UNCHANGED lifeVars

SpecSilent == InitLife /\ [][NextSilent]_vars

(***************************************************************************)
(* C16: in every started game without a winner, mafia:next by the host     *)
(* moves role to night, night to day or to a decided game, day to the      *)
(* night of the next round or to a decided game, whichever players have a  *)
(* null socketId and whichever night actions and votes are stored.         *)
(***************************************************************************)
C16_HostAdvanceMoves ==
  Undecided =>
    LET m == nextOf(mafia)
        undecided == m.started /\ m.winnerTeam = Null
        decided == m.started /\ m.winnerTeam # Null
    IN  /\ mafia.phase = "role" => (undecided /\ m.phase = "night")
        /\ mafia.phase = "night" => ((undecided /\ m.phase = "day") \/ decided)
        /\ mafia.phase = "day" =>
             ((undecided /\ m.phase = "night" /\ m.round = mafia.round + 1) \/ decided)
        /\ m # mafia

C16_Witness ==
  /\ Undecided /\ mafia.phase = "night" /\ mafia.round = 2
  /\ mafia.lastResult = [type |-> "day", tie |-> FALSE, eliminated |-> NoPerson]
  /\ players["a"].socketId = Null /\ players["b"].socketId = Null
  /\ hostSocketId = Null
(***************************************************************************)
(* SpecDev: a game of three players whose host switches devMode on and off *)
(* and uses the developer tools.                                           *)
(***************************************************************************)
RevealAll == \E conn \in HostConns : MafiaRevealAll(conn)

DevTargets == {"a", "b", "z", ""}

DevRoles == {" Mafia ", "doctor", "king", ""}

NextDev ==
  \/ SetDevMode(BOOLEAN) /\ UNCHANGED lifeVars
  \/ Ready({"a", "z"}) /\ UNCHANGED lifeVars
  \/ ~mafia.started /\ Start /\ UNCHANGED lifeVars
  \/ Advance(MaxRound) /\ UNCHANGED lifeVars
  \/ RevealAll /\ UNCHANGED lifeVars
  \/ SetRole(DevTargets, DevRoles, MaxRound) /\ UNCHANGED lifeVars
  \/ ToggleAlive(DevTargets, MaxRound) /\ UNCHANGED lifeVars

SpecDev == InitLife /\ [][NextDev]_vars

(***************************************************************************)
(* C19: mafia:revealAll, mafia:setRole and mafia:toggleAlive act only when *)
(* devMode is true at that moment and the caller is the host; in every     *)
(* other case the room is unchanged and no reveal list is emitted.  An     *)
(* accepted mafia:setRole stores a role of Roles, so every assignment of a *)
(* game is one of the four roles.                                          *)
(***************************************************************************)
DevEvent(conn) ==
  \/ MafiaRevealAll(conn)
  \/ \E targetId \in DevTargets, role \in DevRoles : MafiaSetRole(conn, targetId, role)
  \/ \E targetId \in DevTargets : MafiaToggleAlive(conn, targetId)

C19_RolesValid ==
  mafia.started => \A cid \in DOMAIN mafia.assignments : mafia.assignments[cid] \in Roles

C19_DevToolsNeedDevMode ==
  /\ [](C19_RolesValid)
  /\ [][ \A conn \in HostConns :
           (~(devMode /\ isHost(conn)) /\ DevEvent(conn))
             => (UNCHANGED room /\ emitted'.message # "mafia:reveal") ]_vars

C19_Witness ==
  /\ ~devMode /\ Undecided
  /\ Cardinality({cid \in DOMAIN mafia.assignments : mafia.assignments[cid] = "mafia"}) = 2
  /\ emitted = NoReply
(***************************************************************************)
(* The projected view of the devMode implementation                        *)
(***************************************************************************)
NoHostStats == [hidden |-> TRUE]

NoInvestigationResult == [hidden |-> TRUE]

\* Array.from(room.players.values()) as the list of {clientId, name, alive}
aliveListOf(m) ==
  [i \in 1..Len(playerKeys) |->
     [clientId |-> playerKeys[i], name |-> players[playerKeys[i]].name,
      alive |-> IsAlive(m, playerKeys[i])]]

\* hostStats whose votedCount counts the votes against player a
hostStatsOf_VotesAgainst(m) ==
  [aliveCount |-> Cardinality(alivePlayers(m)),
   votedCount |-> Cardinality({v \in DOMAIN m.day.votes : m.day.votes[v] = "a"}),
   mafiaPicked |-> m.night.mafiaKill # Null,
   doctorPicked |-> m.night.doctorSave # Null,
   detectivePicked |-> m.night.detectiveCheck # Null,
   devMode |-> devMode]

hostStatsOf(m) ==
  [aliveCount |-> Cardinality(alivePlayers(m)),
   votedCount |-> Cardinality(DOMAIN m.day.votes),
   mafiaPicked |-> m.night.mafiaKill # Null,
   doctorPicked |-> m.night.doctorSave # Null,
   detectivePicked |-> m.night.detectiveCheck # Null,
   devMode |-> devMode]

myRoleOf(m, viewerClientId) ==
  IF viewerClientId \in DOMAIN m.assignments THEN m.assignments[viewerClientId] ELSE Null

\* mafiaPublicState that shows the recorded check to whoever submitted it
mafiaPublicState_AnyRole(m, viewerClientId) ==
  IF ~m.started
    THEN [roomCode |-> "ABCD", started |-> FALSE, phase |-> Null, round |-> 1,
          winnerTeam |-> Null, myRole |-> Null, alive |-> EmptyMap, lastResult |-> NoResult,
          canAdvance |-> FALSE, hostStats |-> NoHostStats,
          investigationResult |-> NoInvestigationResult, devMode |-> devMode]
    ELSE LET viewerIsHost == viewerClientId # "" /\ viewerClientId = HostId
         IN  [roomCode |-> "ABCD", started |-> TRUE, phase |-> m.phase, round |-> m.round,
              winnerTeam |-> m.winnerTeam,
              myRole |-> myRoleOf(m, viewerClientId),
              alive |-> aliveListOf(m),
              lastResult |-> m.lastResult,
              canAdvance |-> viewerIsHost,
              hostStats |-> IF viewerIsHost THEN hostStatsOf(m) ELSE NoHostStats,
              investigationResult |->
                IF m.lastInvestigation.by = viewerClientId
                  THEN [targetId |-> m.lastInvestigation.targetId,
                        isMafia |-> m.lastInvestigation.isMafia]
                  ELSE NoInvestigationResult,
              devMode |-> devMode]

mafiaPublicState(m, viewerClientId) ==
  IF ~m.started
    THEN [roomCode |-> "ABCD", started |-> FALSE, phase |-> Null, round |-> 1,
          winnerTeam |-> Null, myRole |-> Null, alive |-> EmptyMap, lastResult |-> NoResult,
          canAdvance |-> FALSE, hostStats |-> NoHostStats,
          investigationResult |-> NoInvestigationResult, devMode |-> devMode]
    ELSE LET viewerIsHost == viewerClientId # "" /\ viewerClientId = HostId
         IN  [roomCode |-> "ABCD", started |-> TRUE, phase |-> m.phase, round |-> m.round,
              winnerTeam |-> m.winnerTeam,
              myRole |-> myRoleOf(m, viewerClientId),
              alive |-> aliveListOf(m),
              lastResult |-> m.lastResult,
              canAdvance |-> viewerIsHost,
              hostStats |-> IF viewerIsHost THEN hostStatsOf(m) ELSE NoHostStats,
              investigationResult |->
                IF /\ myRoleOf(m, viewerClientId) = "detective"
                   /\ m.lastInvestigation.by = viewerClientId
                  THEN [targetId |-> m.lastInvestigation.targetId,
                        isMafia |-> m.lastInvestigation.isMafia]
                  ELSE NoInvestigationResult,
              devMode |-> devMode]

Viewers == GameIds \cup {HostId, "z"}

(***************************************************************************)
(* C21: for every viewer V the view has myRole equal to V's own assignment *)
(* (null when V has none); investigationResult is present only when V is a *)
(* detective now and V submitted the recorded check; the view of V is the  *)
(* same whatever role any other identity holds.                            *)
(***************************************************************************)
C21_ViewShowsOwnRoleOnly ==
  \A V \in Viewers :
    LET view == mafiaPublicState(mafia, V)
    IN  /\ view.myRole = IF mafia.started /\ V \in DOMAIN mafia.assignments
                           THEN mafia.assignments[V] ELSE Null
        /\ view.investigationResult # NoInvestigationResult
             => /\ mafia.started /\ V \in DOMAIN mafia.assignments
                /\ mafia.assignments[V] = "detective"
                /\ mafia.lastInvestigation.by = V
                /\ view.investigationResult.targetId = mafia.lastInvestigation.targetId
        /\ mafia.started =>
             \A other \in DOMAIN mafia.assignments \ {V}, role \in Roles :
               mafiaPublicState([mafia EXCEPT !.assignments[other] = role], V) = view

C21_Witness ==
  /\ mafia.started /\ "a" \in DOMAIN mafia.assignments
  /\ mafia.assignments["a"] = "detective"
  /\ mafia.lastInvestigation.by = "a"
  /\ mafia.lastInvestigation.isMafia
  /\ mafiaPublicState(mafia, "a").investigationResult.isMafia
  /\ mafiaPublicState(mafia, "b").investigationResult = NoInvestigationResult
(***************************************************************************)
(* C22: the view of the host and of every player is the same for two games *)
(* that differ only in which identities are stored in the night slots and  *)
(* in the vote map, the same slots being non-null and the number of votes  *)
(* being the same.  hostStats holds the two counts, the three picked flags *)
(* and the devMode flag: numbers and booleans, no identity.                *)
(***************************************************************************)
\* The values a night slot may hold instead of x: null stays null.
SlotChoices(x) == IF x = Null THEN {Null} ELSE GameIds

\* The vote maps with as many votes as votes.
VoteChoices(votes) ==
  UNION {[voters -> GameIds] : voters \in {D \in SUBSET GameIds : Cardinality(D) = Cardinality(DOMAIN votes)}}

C22_ViewHidesChoices ==
  mafia.started =>
    /\ \A kill \in SlotChoices(mafia.night.mafiaKill),
          save \in SlotChoices(mafia.night.doctorSave),
          check \in SlotChoices(mafia.night.detectiveCheck),
          votes \in VoteChoices(mafia.day.votes) :
         LET other == [mafia EXCEPT !.night = [mafiaKill |-> kill, doctorSave |-> save,
                                               detectiveCheck |-> check],
                                    !.day.votes = votes]
         IN  \A V \in Viewers : mafiaPublicState(other, V) = mafiaPublicState(mafia, V)
    /\ LET stats == mafiaPublicState(mafia, HostId).hostStats
       IN  /\ stats.aliveCount \in Nat /\ stats.votedCount \in Nat
           /\ \A f \in DOMAIN stats \ {"aliveCount", "votedCount"} : stats[f] \in BOOLEAN

C22_Witness ==
  /\ Undecided /\ mafia.phase = "day"
  /\ DOMAIN mafia.day.votes = {"a", "b"} /\ mafia.day.votes["a"] # mafia.day.votes["b"]
  /\ mafiaPublicState(mafia, HostId).hostStats.votedCount = 2
  /\ mafiaPublicState(mafia, "a").hostStats = NoHostStats
(***************************************************************************)
(* The projected view of the grace-timer implementation                    *)
(***************************************************************************)
NoView == [started |-> FALSE]

mafiaPublicStateG(m, viewerClientId) ==
  IF m = NoGame THEN NoView
  ELSE LET viewerIsHost == viewerClientId # "" /\ viewerClientId = HostId
           aliveIds == {cid \in DOMAIN m.alive : m.alive[cid]}
       IN  [started |-> m.started, phase |-> m.phase, round |-> m.round,
            alive |-> [i \in 1..Len(m.keys) |->
                         [clientId |-> m.keys[i], name |-> nameOf(m.keys[i]),
                          alive |-> m.alive[m.keys[i]]]],
            myRole |-> myRoleOf(m, viewerClientId),
            lastResult |-> m.lastResult,
            investigationResult |->
              IF viewerClientId \in DOMAIN m.investigationResult
                THEN m.investigationResult[viewerClientId]
                ELSE NoInvestigationResult,
            canAdvance |-> viewerIsHost,
            winnerTeam |-> m.winnerTeam,
            hostStats |->
              IF viewerIsHost
                THEN [aliveCount |-> Cardinality(aliveIds),
                      votedCount |-> Cardinality({cid \in aliveIds : cid \in DOMAIN m.votes}),
                      mafiaPicked |-> m.night.mafiaKill # Null,
                      doctorPicked |-> m.night.doctorSave # Null,
                      detectivePicked |-> m.night.detectiveCheck # Null]
                ELSE NoHostStats]

ViewersG == FiveIds \cup {HostId}

(***************************************************************************)
(* C23: in the grace-timer implementation the night result of a view names *)
(* only who died; the view of a viewer who is not the doctor does not      *)
(* contain the doctor's save target.  resolveNight stores the saved player *)
(* in lastResult and every view carries lastResult, so this fails.         *)
(***************************************************************************)
C23_SaveTargetHidden ==
  \A V \in ViewersG :
    LET view == mafiaPublicStateG(mafia, V)
    IN  (view.started /\ view.myRole # "doctor" /\ view.lastResult.type = "night")
          => view.lastResult.saved = NoPerson

C23_Witness ==
  /\ mafia.started /\ mafia.phase = "day" /\ mafia.winnerTeam = Null
  /\ mafiaPublicStateG(mafia, "a").myRole = "villager"
  /\ mafiaPublicStateG(mafia, "a").lastResult =
       [type |-> "night", died |-> NoPerson, saved |-> Person("e")]
(***************************************************************************)
(* SpecKeys: players join and leave around a running game of three, while  *)
(* the game is played and the host uses the developer tools.               *)
(***************************************************************************)
KeyIds == {"a", "d"}

NextKeys ==
  \/ mafia.started /\ Join(KeyIds, {"Ann"}) /\ UNCHANGED lifeVars
  \/ mafia.started /\ Leave(KeyIds) /\ UNCHANGED lifeVars
  \/ Ready({"a"}) /\ UNCHANGED lifeVars
  \/ ~mafia.started /\ Start /\ UNCHANGED lifeVars
  \/ Advance(MaxRound) /\ UNCHANGED lifeVars
  \/ NightAction(OwnConns(KeyIds \cup {"b"}), {"kill", "check"}, KeyIds, MaxRound) /\ UNCHANGED lifeVars
  \/ Vote(OwnConns(KeyIds \cup {"b"}), KeyIds, MaxRound) /\ UNCHANGED lifeVars
  \/ SetRole(KeyIds, {" Mafia ", "king"}, MaxRound) /\ UNCHANGED lifeVars
  \/ ToggleAlive(KeyIds, MaxRound) /\ UNCHANGED lifeVars

SpecKeys == InitLife /\ [][NextKeys]_vars

(***************************************************************************)
(* C24: while a game instance lives, the keys of assignments and the keys  *)
(* of alive are the same set and no event changes them: not player:join,   *)
(* player:leave, mafia:nightAction, mafia:vote, a resolution, mafia:setRole *)
(* or mafia:toggleAlive.  At mafia:start the keys are the players of the   *)
(* room, and every assignment is one of the four roles.                    *)
(***************************************************************************)
C24_KeysNow ==
  mafia.started =>
    /\ DOMAIN mafia.assignments = DOMAIN mafia.alive
    /\ \A cid \in DOMAIN mafia.assignments : mafia.assignments[cid] \in Roles

C24_KeysStep ==
  /\ (mafia.started /\ mafia'.started)
       => /\ DOMAIN mafia'.assignments = DOMAIN mafia.assignments
          /\ DOMAIN mafia'.alive = DOMAIN mafia.alive
  /\ (~mafia.started /\ mafia'.started) => DOMAIN mafia'.assignments = DOMAIN players

C24_KeysFrozen == [](C24_KeysNow) /\ [][C24_KeysStep]_vars

C24_Witness ==
  /\ mafia.started /\ mafia.phase = "day"
  /\ DOMAIN mafia.assignments = LifeIds
  /\ DOMAIN players = {"b", "c", "d"}
  /\ mafia.assignments["a"] = "mafia" /\ ~mafia.alive["a"]
(***************************************************************************)
(* SpecCodes: the rooms map of the devMode implementation under            *)
(* host:createRoom and player:join.  makeRoomCode draws at random, so      *)
(* createUniqueRoomCode may return any free code of four characters, and,  *)
(* when a room of four characters exists and every attempt hit one, any    *)
(* code of six characters, which it does not look up.                      *)
(***************************************************************************)
Codes4 == {"AAAA", "BBBB"}

Codes6 == {"AAAAAA", "BBBBBB"}

createUniqueRoomCode ==
  {code \in Codes4 : code \notin DOMAIN rooms}
    \cup (IF Codes4 \cap DOMAIN rooms # {} THEN Codes6 ELSE {})

newRoom(conn) == [hostClientId |-> conn.clientId, hostSocketId |-> conn.sid, players |-> {}]

HostCreateRoom(conn) ==
  IF conn.clientId = ""
    THEN emitted' = NoReply /\ UNCHANGED <<room, lifeVars>>
    ELSE \E code \in createUniqueRoomCode :
           /\ rooms' = Put(rooms, code, newRoom(conn))
           /\ emitted' = [message |-> "room:created", roomCode |-> code]
           /\ UNCHANGED <<room, registered, hostGoneTimer, staleTimers>>

\* player:join as far as the rooms map is concerned
PlayerJoinRoom(conn, roomCode) ==
  IF conn.clientId = "" THEN emitted' = NoReply /\ UNCHANGED <<room, lifeVars>>
  ELSE IF roomCode \notin DOMAIN rooms
    THEN emitted' = [message |-> "ROOM_NOT_FOUND"] /\ UNCHANGED <<room, lifeVars>>
  ELSE /\ rooms' = [rooms EXCEPT ![roomCode].players = @ \cup {conn.clientId}]
       /\ emitted' = joinedReply("player:joined", conn.sid, roomCode, NoReply)
       /\ UNCHANGED <<room, registered, hostGoneTimer, staleTimers>>

CreateRoom == \E conn \in {Conn(HostId), Conn("a"), Conn("")} : HostCreateRoom(conn)

JoinRoom == \E roomCode \in Codes4 \cup Codes6 : PlayerJoinRoom(Conn("b"), roomCode)

NextCodes ==
  \/ CreateRoom
  \/ JoinRoom

SpecCodes == Init /\ [][NextCodes]_vars

(***************************************************************************)
(* C25: host:createRoom leaves every room that exists in the rooms map,    *)
(* with its host and players as they are, and files the new room under a   *)
(* code no existing room has.  The code of six characters that             *)
(* createUniqueRoomCode falls back to is not compared with the map, so a   *)
(* second fallback can replace the room of an earlier one: this fails.     *)
(***************************************************************************)
C25_CreateKeepsRooms ==
  [][ (\E conn \in {Conn(HostId), Conn("a")} : HostCreateRoom(conn))
        => /\ \A code \in DOMAIN rooms : code \in DOMAIN rooms' /\ rooms'[code] = rooms[code]
           /\ Cardinality(DOMAIN rooms') = Cardinality(DOMAIN rooms) + 1 ]_vars

C25_Witness ==
  /\ Codes4 \subseteq DOMAIN rooms
  /\ "AAAAAA" \in DOMAIN rooms
  /\ rooms["AAAAAA"].hostClientId = "a" /\ rooms["AAAAAA"].players = {}
  /\ emitted = [message |-> "room:created", roomCode |-> "AAAAAA"]


(***************************************************************************)
(* C26: mafia:nightAction changes the game only when it is started and     *)
(* undecided, the phase is night, actor and target are alive and the pair  *)
(* (action, role of the actor) is (kill, mafia), (save, doctor) or         *)
(* (check, detective); it then sets the slot of that pair to the target,   *)
(* whatever the slot held before, and leaves the other two slots, the      *)
(* votes, the alive flags and the phase as they are.                       *)
(***************************************************************************)
NightIds == GameIds \cup {"", "z"}

slotOf(action) ==
  CASE trimLower(action) = "kill" -> "mafiaKill"
    [] trimLower(action) = "save" -> "doctorSave"
    [] trimLower(action) = "check" -> "detectiveCheck"
    [] OTHER -> Null

roleOfSlot(slot) ==
  CASE slot = "mafiaKill" -> "mafia"
    [] slot = "doctorSave" -> "doctor"
    [] slot = "detectiveCheck" -> "detective"
    [] OTHER -> Null

NightSlots == {"mafiaKill", "doctorSave", "detectiveCheck"}

NightActionAllowed(m, cid, action, targetId) ==
  /\ m.started /\ m.winnerTeam = Null /\ m.phase = "night"
  /\ IsAlive(m, cid) /\ IsAlive(m, targetId)
  /\ slotOf(action) \in NightSlots
  /\ m.assignments[cid] = roleOfSlot(slotOf(action))

C26_NightActionContract ==
  \A cid \in NightIds, action \in ActionInputs, targetId \in NightIds :
    LET after == nightActionResult(mafia, cid, action, targetId)
    IN  IF NightActionAllowed(mafia, cid, action, targetId)
          THEN /\ after.night[slotOf(action)] = targetId
               /\ \A slot \in NightSlots \ {slotOf(action)} :
                     after.night[slot] = mafia.night[slot]
               /\ after.day = mafia.day
               /\ after.alive = mafia.alive
               /\ after.phase = mafia.phase
               /\ after.round = mafia.round
               /\ after.assignments = mafia.assignments
               /\ after.winnerTeam = mafia.winnerTeam
          ELSE after = mafia

\* A night in which the mafia has chosen and another alive target exists, so
\* that a second kill submission overwrites the first.
C26_Witness ==
  /\ mafia.started /\ mafia.winnerTeam = Null /\ mafia.phase = "night"
  /\ mafia.night.mafiaKill # Null
  /\ mafia.night.doctorSave # Null
  /\ \E cid \in GameIds, targetId \in GameIds :
       /\ targetId # mafia.night.mafiaKill
       /\ NightActionAllowed(mafia, cid, "kill", targetId)
       /\ nightActionResult(mafia, cid, "kill", targetId).night.mafiaKill = targetId

(***************************************************************************)
(* C27: mafia:vote records a vote only when the phase is day, the game is  *)
(* undecided, the voter is alive and the target is another alive player;   *)
(* a voter has at most one recorded vote, which a revote replaces; a vote  *)
(* that names the voter itself, a dead player or an unknown identity is    *)
(* not recorded.                                                           *)
(***************************************************************************)
VoteAllowed(m, cid, targetId) ==
  /\ m.started /\ m.winnerTeam = Null /\ m.phase = "day"
  /\ IsAlive(m, cid) /\ IsAlive(m, targetId)
  /\ targetId # cid

C27_VoteContract ==
  \A cid \in NightIds, targetId \in NightIds :
    LET after == voteResult(mafia, cid, targetId)
    IN  IF VoteAllowed(mafia, cid, targetId)
          THEN /\ after.day.votes = Put(mafia.day.votes, cid, targetId)
               /\ after.night = mafia.night
               /\ after.alive = mafia.alive
               /\ after.phase = mafia.phase
               /\ after.round = mafia.round
          ELSE after = mafia

\* An alive player holds a recorded vote against itself during the day.
C27_Witness ==
  /\ mafia.started /\ mafia.winnerTeam = Null /\ mafia.phase = "day"
  /\ \E cid \in GameIds :
       /\ IsAlive(mafia, cid)
       /\ cid \in DOMAIN mafia.day.votes
       /\ mafia.day.votes[cid] = cid

(***************************************************************************)
(* The lobby events of the grace-timer implementation                      *)
(***************************************************************************)
PlayerJoinG(conn, roomCode, name, cid) ==
  LET code == normalizeRoomG(roomCode)
      playerName == trimName(name)
      id == pickId(cid, conn.clientId)
  IN  IF ~registered \/ code # RoomCode
        THEN emitted' = [message |-> "ROOM_NOT_FOUND"] /\ UNCHANGED <<room, lifeVars>>
      ELSE IF playerName = ""
        THEN emitted' = [message |-> "NAME_REQUIRED"] /\ UNCHANGED <<room, lifeVars>>
      ELSE IF id = ""
        THEN emitted' = [message |-> "CLIENT_ID_REQUIRED"] /\ UNCHANGED <<room, lifeVars>>
      ELSE /\ players' = Put(players, id,
                             [clientId |-> id, name |-> playerName, ready |-> FALSE,
                              socketId |-> conn.sid])
           /\ playerKeys' = setKey(playerKeys, id)
           /\ hub' = [hub EXCEPT !.scoreboard = ensureScore(@, id, playerName)]
           /\ emitted' = [message |-> "player:joined", to |-> conn.sid, roomCode |-> code,
                          name |-> playerName]
           /\ UNCHANGED <<devMode, hostSocketId, mafia, lifeVars>>

\* player:attach: the entry is bound to the calling socket, which is sent
\* room:state and hub:state and, in a started game, mafia:state and mafia:role
\* with roleOf(room, id)
PlayerAttachG(conn, roomCode, cid) ==
  LET id == pickId(cid, conn.clientId)
  IN  IF ~registered \/ normalizeRoomG(roomCode) # RoomCode \/ id \notin DOMAIN players
        THEN emitted' = NoReply /\ UNCHANGED <<room, lifeVars>>
        ELSE /\ players' = [players EXCEPT ![id].socketId = conn.sid]
             /\ emitted' = [message |-> "room:state", to |-> conn.sid,
                            followedBy |->
                              IF mafia.started
                                THEN [message |-> "mafia:role", to |-> conn.sid,
                                      role |-> roleOf(mafia, id)]
                                ELSE NoReply]
             /\ UNCHANGED <<devMode, hostSocketId, playerKeys, hub, mafia, lifeVars>>

PlayerReadyG(conn, roomCode, ready, cid) ==
  LET id == pickId(cid, conn.clientId)
  IN  IF ~registered \/ normalizeRoomG(roomCode) # RoomCode \/ id \notin DOMAIN players
        THEN emitted' = NoReply /\ UNCHANGED <<room, lifeVars>>
        ELSE /\ players' = [players EXCEPT ![id].ready = ready]
             /\ emitted' = NoReply
             /\ UNCHANGED <<devMode, hostSocketId, playerKeys, hub, mafia, lifeVars>>

PlayerLeaveG(conn, roomCode, cid) ==
  LET id == pickId(cid, conn.clientId)
  IN  IF ~registered \/ normalizeRoomG(roomCode) # RoomCode
        THEN emitted' = NoReply /\ UNCHANGED <<room, lifeVars>>
        ELSE /\ players' = Remove(players, id)
             /\ playerKeys' = deleteKey(playerKeys, id)
             /\ emitted' = NoReply
             /\ UNCHANGED <<devMode, hostSocketId, hub, mafia, lifeVars>>

(***************************************************************************)
(* SpecDayG: the grace-timer game driven by the host's mafia:next and the  *)
(* players' night actions and votes, while players leave, join again,      *)
(* attach and toggle ready                                                 *)
(***************************************************************************)
\* The room of InitG after mafia:start.
InitDayG ==
  /\ devMode = FALSE
  /\ hostSocketId = Conn(HostId).sid
  /\ players = [cid \in FiveIds |->
                  [clientId |-> cid, name |-> "Ann", ready |-> FALSE,
                   socketId |-> Conn(cid).sid]]
  /\ playerKeys = SubSeq(AllIds, 1, 5)
  /\ hub = [currentGame |-> "mafia",
            scoreboard |-> [cid \in FiveIds |-> NoScore(cid, "Ann")],
            history |-> <<>>]
  /\ mafia \in {newGameG(roles) : roles \in DealsG}
  /\ emitted = NoReply
  /\ registered = TRUE
  /\ rooms = EmptyMap
  /\ hostGoneTimer = Null
  /\ staleTimers = NoTimers

JoinG == \E name \in {"Ann", ""} : PlayerJoinG(Conn("a"), " ab-cd", name, "")

AttachG == \E roomCode \in {"ABCD", "WXYZ"} : PlayerAttachG(Conn2("a"), roomCode, "")

ReadyG == \E ready \in BOOLEAN : PlayerReadyG(Conn("a"), RoomCode, ready, "")

LeaveG == PlayerLeaveG(Conn("a"), RoomCode, "")

NextDayG ==
  \/ AdvanceG /\ UNCHANGED lifeVars
  \/ NightActionG /\ UNCHANGED lifeVars
  \/ VoteG /\ UNCHANGED lifeVars
  \/ JoinG
  \/ AttachG
  \/ ReadyG
  \/ LeaveG

SpecDayG == InitDayG /\ [][NextDayG]_vars

(***************************************************************************)
(* C28: in the grace-timer implementation the day is resolved in the step  *)
(* that records the vote of the last alive player who had not voted: no    *)
(* reachable state is an undecided day in which somebody is alive and      *)
(* every alive player has a recorded vote; and that step leaves the game   *)
(* and the hub as the day branch of the host's mafia:next leaves them      *)
(* (resolveDay, checkWin, then finishGame or the next round).              *)
(***************************************************************************)
AllAliveVoted(m) ==
  /\ alivePlayers(m) # {}
  /\ \A v \in alivePlayers(m) : v \in DOMAIN m.votes

C28_NoFullDay ==
  mafia.started =>
    ~(mafia.phase = "day" /\ mafia.winnerTeam = Null /\ AllAliveVoted(mafia))

C28_LastVoteStep ==
  \A actor \in OwnConns(FourIds), targetId \in {"a", "b"} :
    LET m1 == [mafia EXCEPT !.votes = Put(@, actor[1].clientId, targetId)]
    IN  ( /\ mafia.started /\ mafia.phase = "day" /\ mafia.winnerTeam = Null
          /\ IsAlive(mafia, actor[1].clientId) /\ IsAlive(mafia, targetId)
          /\ AllAliveVoted(m1)
          /\ MafiaVoteG(actor[1], actor[2], targetId) )
        => /\ mafia' = afterDay(hub, m1).mafia
           /\ hub' = afterDay(hub, m1).hub
           /\ mafia'.phase = "day" => mafia'.winnerTeam # Null

C28_AutoDayResolution == [](C28_NoFullDay) /\ [][C28_LastVoteStep]_vars

\* An undecided day in which exactly one alive player has not voted yet and
\* two votes are recorded: the next accepted vote is the last missing one.
C28_Witness ==
  /\ mafia.started /\ mafia.phase = "day" /\ mafia.winnerTeam = Null
  /\ Cardinality(alivePlayers(mafia) \ DOMAIN mafia.votes) = 1
  /\ Cardinality(alivePlayers(mafia) \cap DOMAIN mafia.votes) >= 2
  /\ alivePlayers(mafia) \ DOMAIN mafia.votes \subseteq FourIds

(***************************************************************************)
(* C29: the night is resolved, without a host advance, as soon as every    *)
(* role among mafia, doctor and detective that has an alive holder has a   *)
(* recorded night selection: no reachable state is an undecided night in   *)
(* which all these selections are recorded.                                *)
(***************************************************************************)
CapableSlots(m) ==
  {slot \in NightSlots :
     \E cid \in alivePlayers(m) : m.assignments[cid] = roleOfSlot(slot)}

AllCapableActed(m) ==
  /\ CapableSlots(m) # {}
  /\ \A slot \in CapableSlots(m) : m.night[slot] # Null

C29_NoFullNight ==
  mafia.started =>
    ~(mafia.phase = "night" /\ mafia.winnerTeam = Null /\ AllCapableActed(mafia))

\* The first night with mafia, doctor and detective alive and all three
\* selections recorded: the game is still in phase night.
C29_Witness ==
  /\ mafia.started /\ mafia.phase = "night" /\ mafia.winnerTeam = Null
  /\ mafia.round = 1
  /\ CapableSlots(mafia) = NightSlots
  /\ mafia.night.mafiaKill = "e"
  /\ mafia.night.doctorSave = "e"
  /\ mafia.night.detectiveCheck = "e"

(***************************************************************************)
(* C30: a night resolution that leaves the winner undecided moves the game *)
(* to phase day with the three night selections null and no votes; a day   *)
(* resolution that leaves the winner undecided adds exactly 1 to the       *)
(* round and moves the game to phase night with no votes and the three     *)
(* selections null. So a night never begins or runs with recorded votes    *)
(* and a day never begins or runs with night selections of the round       *)
(* before.                                                                 *)
(***************************************************************************)
NightLeft ==
  [night |-> [mafiaKill |-> Null, doctorSave |-> Null, detectiveCheck |-> Null],
   day |-> [votes |-> EmptyMap]]

C30_ResolutionClears ==
  (mafia.started /\ mafia.winnerTeam = Null) =>
    /\ mafia.phase = "night" =>
         LET after == resolveNight(mafia)
         IN  after.winnerTeam = Null =>
               /\ after.phase = "day"
               /\ after.round = mafia.round
               /\ after.night = NightLeft.night
               /\ after.day = NightLeft.day
    /\ mafia.phase = "day" =>
         LET after == resolveDay(mafia)
         IN  after.winnerTeam = Null =>
               /\ after.phase = "night"
               /\ after.round = mafia.round + 1
               /\ after.night = NightLeft.night
               /\ after.day = NightLeft.day

C30_NothingCarried ==
  mafia.started =>
    /\ mafia.phase \in {"role", "night"} => mafia.day = NightLeft.day
    /\ mafia.phase \in {"role", "day"} => mafia.night = NightLeft.night

C30_PhaseStep ==
  (mafia.started /\ mafia'.started /\ mafia'.winnerTeam = Null) =>
    /\ (mafia.phase = "night" /\ mafia'.phase = "day") =>
         /\ mafia'.round = mafia.round
         /\ mafia'.night = NightLeft.night
         /\ mafia'.day = NightLeft.day
    /\ (mafia.phase = "day" /\ mafia'.phase = "night") =>
         /\ mafia'.round = mafia.round + 1
         /\ mafia'.night = NightLeft.night
         /\ mafia'.day = NightLeft.day
    /\ mafia'.round # mafia.round =>
         (mafia.phase = "day" /\ mafia'.phase = "night") \/ mafia'.phase = "role"

C30_RoundsStartClean ==
  [](C30_ResolutionClears /\ C30_NothingCarried) /\ [][C30_PhaseStep]_vars

\* The second night has begun after a day in which votes were recorded and a
\* player was voted out: no vote and no selection is left.
C30_Witness ==
  /\ mafia.started /\ mafia.winnerTeam = Null
  /\ mafia.phase = "night" /\ mafia.round = 2
  /\ mafia.lastResult.type = "day"
  /\ mafia.lastResult.eliminated # NoPerson
  /\ mafia.day = NightLeft.day
  /\ mafia.night = NightLeft.night

(***************************************************************************)
(* SpecRooms: the room ABCD next to the rooms of the rooms map; events     *)
(* carry the room code they are addressed to                               *)
(***************************************************************************)
\* player:join that puts the player into room ABCD when the code is unknown
PlayerJoinAt_Fallback(conn, roomCode, overrideId, name) ==
  LET code == normalizeRoom(roomCode)
      cid == pickId(overrideId, conn.clientId)
  IN  IF cid # "" /\ code # RoomCode /\ code \notin DOMAIN rooms
        THEN PlayerJoin(conn, overrideId, "Ann") /\ UNCHANGED lifeVars
        ELSE emitted' = NoReply /\ UNCHANGED <<room, lifeVars>>

\* player:join: getRoom(roomCode) selects the room the handler works on
PlayerJoinAt(conn, roomCode, overrideId, name) ==
  LET code == normalizeRoom(roomCode)
      cid == pickId(overrideId, conn.clientId)
      nm == trimName(name)
  IN  IF cid = "" THEN emitted' = NoReply /\ UNCHANGED <<room, lifeVars>>
      ELSE IF code = RoomCode
        THEN PlayerJoin(conn, overrideId, name) /\ UNCHANGED lifeVars
      ELSE IF code \notin DOMAIN rooms
        THEN emitted' = [message |-> "ROOM_NOT_FOUND"] /\ UNCHANGED <<room, lifeVars>>
      ELSE IF nm = ""
        THEN emitted' = [message |-> "NAME_REQUIRED"] /\ UNCHANGED <<room, lifeVars>>
      ELSE /\ rooms' = [rooms EXCEPT ![code].players = @ \cup {cid}]
           /\ emitted' = joinedReply("player:joined", conn.sid, code, NoReply)
           /\ UNCHANGED <<room, registered, hostGoneTimer, staleTimers>>

RoomsIds == {"a", "b"}

JoinCodes == {"ABCD", " abcd", "AAAA", "WXYZ"}

JoinNames == {"Ann", ""}

\* Room ABCD in developer mode with player a joined.
InitRooms ==
  /\ devMode = TRUE
  /\ hostSocketId = Conn(HostId).sid
  /\ players = [cid \in {"a"} |->
                  [clientId |-> cid, name |-> "Ann", ready |-> FALSE,
                   socketId |-> Conn(cid).sid]]
  /\ playerKeys = <<"a">>
  /\ hub = [NoHub EXCEPT !.scoreboard = [cid \in {"a"} |-> 0]]
  /\ mafia = NoGame
  /\ emitted = NoReply
  /\ registered = TRUE
  /\ rooms = EmptyMap
  /\ hostGoneTimer = Null
  /\ staleTimers = NoTimers

JoinAt ==
  \E conn \in {Conn("a"), Conn("b"), Conn("")}, roomCode \in JoinCodes, name \in JoinNames :
    PlayerJoinAt(conn, roomCode, "", name)

\* One more room is created next to room ABCD.
CreateOther == rooms = EmptyMap /\ HostCreateRoom(Conn("c"))

NextRooms ==
  \/ CreateOther
  \/ JoinAt
  \/ ~mafia.started /\ Start /\ UNCHANGED lifeVars
  \/ Advance(MaxRound) /\ UNCHANGED lifeVars
  \/ NightAction(OwnConns(RoomsIds), {"kill"}, RoomsIds, MaxRound) /\ UNCHANGED lifeVars
  \/ Vote(OwnConns(RoomsIds), RoomsIds, MaxRound) /\ UNCHANGED lifeVars

SpecRooms == InitRooms /\ [][NextRooms]_vars

(***************************************************************************)
(* C31: an event addressed to one room leaves every other room as it is,   *)
(* and a rejected event (join to an unknown room, with an empty name or    *)
(* an empty client identity; night action or vote in the wrong phase;      *)
(* start below the minimum) leaves the addressed room as it is too.        *)
(***************************************************************************)
OtherRoomsKept(code) ==
  /\ DOMAIN rooms \subseteq DOMAIN rooms'
  /\ \A d \in DOMAIN rooms \ {code} : rooms'[d] = rooms[d]
  /\ code # RoomCode => UNCHANGED room

JoinRejected(conn, roomCode, name) ==
  \/ conn.clientId = ""
  \/ trimName(name) = ""
  \/ normalizeRoom(roomCode) \notin DOMAIN rooms \cup {RoomCode}

C31_JoinStep ==
  \A conn \in {Conn("a"), Conn("b"), Conn("")}, roomCode \in JoinCodes, name \in JoinNames :
    PlayerJoinAt(conn, roomCode, "", name)
      => /\ OtherRoomsKept(normalizeRoom(roomCode))
         /\ JoinRejected(conn, roomCode, name) => UNCHANGED <<room, rooms>>

C31_GameStep ==
  /\ rooms' # rooms => UNCHANGED room
  /\ emitted'.message \in {"ROOM_NOT_FOUND", "NAME_REQUIRED", "NEED_MIN_PLAYERS"}
       => UNCHANGED <<room, rooms>>
  /\ (mafia.started /\ mafia.phase # "night" /\
        NightAction(OwnConns(RoomsIds), {"kill"}, RoomsIds, MaxRound))
       => UNCHANGED <<room, rooms>>
  /\ (mafia.started /\ mafia.phase # "day" /\ Vote(OwnConns(RoomsIds), RoomsIds, MaxRound))
       => UNCHANGED <<room, rooms>>
  /\ (Cardinality(DOMAIN players) < minPlayers /\ Start) => UNCHANGED <<room, rooms>>

C31_RoomsIsolated == [][C31_JoinStep /\ C31_GameStep]_vars

\* Room ABCD runs a game while player a has joined the other room AAAA, and
\* the last event was a join rejected for its unknown room code.
C31_Witness ==
  /\ mafia.started /\ mafia.phase = "night"
  /\ "AAAA" \in DOMAIN rooms /\ "a" \in rooms["AAAA"].players
  /\ DOMAIN players = {"a", "b"}
  /\ emitted = [message |-> "ROOM_NOT_FOUND"]

(***************************************************************************)
(* SpecNames: the lobby of the implementation of index.js lines 1-609.     *)
(* Its state is the rooms map: a room is filed under its code with the     *)
(* socket that created it as host, its players keyed by client id (keys    *)
(* is the insertion order of the Map) and its game.  Of a launched game    *)
(* the lobby handlers read room.game.key only, so the game is followed by  *)
(* its key; the variables of the room of part_000 stay as they are.        *)
(***************************************************************************)
NamesI == {"Ann", "ANN", " ann ", "Bob", ""}

\* String(name || "").trim().slice(0, 40) on the NamesI
normName(name) == IF name = " ann " THEN "ann" ELSE name

\* p.name.toLowerCase() on the names of the NamesI
toLowerCase(nm) ==
  CASE nm \in {"Ann", "ANN", "ann"} -> "ann"
    [] nm = "Bob" -> "bob"
    [] OTHER -> nm

Gone == ""

\* trim, upper case, strip what is no letter or digit, first 8 characters,
\* on the CodeInputs
normRoom(roomCode) == IF roomCode = " ab-cd" THEN "ABCD" ELSE roomCode

Codes4I == {"ABCD", "WXYZ"}

Codes6I == {"ABCDEF"}

\* makeCode draws at random: any free code of four characters, or, when all
\* 80 draws hit a room, a code of six characters that is not looked up
uniqueRoomCode(rs) ==
  {c \in Codes4I : c \notin DOMAIN rs}
    \cup (IF Codes4I \cap DOMAIN rs # {} THEN Codes6I ELSE {})

newRoomI(conn) == [hostId |-> conn.sid, players |-> EmptyMap, keys |-> <<>>, game |-> Null]

\* roomPublicState(code).players: name and ready flag in the order of the Map
roomPublicState(r) ==
  [i \in 1..Len(r.keys) |-> [name |-> r.players[r.keys[i]].name,
                             ready |-> r.players[r.keys[i]].ready]]

allReady(rs, code) ==
  /\ code \in DOMAIN rs
  /\ DOMAIN rs[code].players # {}
  /\ \A cid \in DOMAIN rs[code].players : rs[code].players[cid].ready

roomError(text) == [message |-> text]

part000Vars == <<room, registered, hostGoneTimer, staleTimers>>

InitNames ==
  /\ rooms = EmptyMap
  /\ emitted = NoReply
  /\ devMode = FALSE
  /\ hostSocketId = Null
  /\ players = EmptyMap
  /\ playerKeys = <<>>
  /\ hub = NoHub
  /\ mafia = NoGame
  /\ registered = FALSE
  /\ hostGoneTimer = Null
  /\ staleTimers = NoTimers

\* host:createRoom: rooms.set under the code drawn; no room is looked at
HostCreateRoomI(conn) ==
  \E roomCode \in uniqueRoomCode(rooms) :
    /\ rooms' = Put(rooms, roomCode, newRoomI(conn))
    /\ emitted' = [message |-> "room:created", roomCode |-> roomCode]
    /\ UNCHANGED part000Vars

\* host:startGame announces the start and changes nothing
HostStartGameI(conn, roomCode) ==
  LET code == normRoom(roomCode)
  IN  /\ emitted' = IF code \notin DOMAIN rooms THEN roomError("Room not found")
                    ELSE IF rooms[code].hostId # conn.sid THEN roomError("Not host")
                    ELSE IF ~allReady(rooms, code) THEN roomError("Not all ready")
                    ELSE NoReply
      /\ UNCHANGED <<rooms, part000Vars>>

\* host:launchGame: mafiaStart or room.game = {key, state: {}}; both replace
\* the game of the room
HostLaunchGameI(conn, roomCode, gameKey) ==
  LET code == normRoom(roomCode)
  IN  IF code \notin DOMAIN rooms
        THEN emitted' = roomError("Room not found") /\ UNCHANGED <<rooms, part000Vars>>
      ELSE IF rooms[code].hostId # conn.sid
        THEN emitted' = roomError("Not host") /\ UNCHANGED <<rooms, part000Vars>>
      ELSE IF ~allReady(rooms, code)
        THEN emitted' = roomError("Not all ready") /\ UNCHANGED <<rooms, part000Vars>>
      ELSE /\ rooms' = [rooms EXCEPT ![code].game = gameKey]
           /\ emitted' = NoReply
           /\ UNCHANGED part000Vars

\* player:join that compares the names as they are written
PlayerJoinI_ExactNames(conn, roomCode, name, clientId) ==
  LET code == normRoom(roomCode)
      nm == normName(name)
      cid == pickId(clientId, conn.clientId)
  IN  IF code = "" \/ code \notin DOMAIN rooms \/ nm = "" \/ cid = ""
        THEN emitted' = roomError("rejected") /\ UNCHANGED <<rooms, part000Vars>>
      ELSE IF \E p \in DOMAIN rooms[code].players : rooms[code].players[p].name = nm
        THEN emitted' = roomError("Name already taken") /\ UNCHANGED <<rooms, part000Vars>>
      ELSE /\ rooms' = [rooms EXCEPT
                          ![code].players = Put(@, cid, [name |-> nm, ready |-> FALSE,
                                                         socketId |-> conn.sid]),
                          ![code].keys = setKey(@, cid)]
           /\ emitted' = NoReply
           /\ UNCHANGED part000Vars

PlayerJoinI(conn, roomCode, name, clientId) ==
  LET code == normRoom(roomCode)
      nm == normName(name)
      cid == pickId(clientId, conn.clientId)
  IN  IF code = "" \/ code \notin DOMAIN rooms
        THEN emitted' = roomError("Room code is wrong") /\ UNCHANGED <<rooms, part000Vars>>
      ELSE IF nm = ""
        THEN emitted' = roomError("Name required") /\ UNCHANGED <<rooms, part000Vars>>
      ELSE IF cid = ""
        THEN emitted' = roomError("Missing clientId") /\ UNCHANGED <<rooms, part000Vars>>
      ELSE IF \E p \in DOMAIN rooms[code].players :
                toLowerCase(rooms[code].players[p].name) = toLowerCase(nm)
        THEN emitted' = roomError("Name already taken") /\ UNCHANGED <<rooms, part000Vars>>
      ELSE /\ rooms' = [rooms EXCEPT
                          ![code].players = Put(@, cid, [name |-> nm, ready |-> FALSE,
                                                         socketId |-> conn.sid]),
                          ![code].keys = setKey(@, cid)]
           /\ emitted' = NoReply
           /\ UNCHANGED part000Vars

\* player:attach binds the player to the socket and sends the socket the
\* room:state, followed by game:launch when the game of the room is mafia
PlayerAttachI(conn, roomCode, clientId) ==
  LET code == normRoom(roomCode)
      cid == pickId(clientId, conn.clientId)
  IN  IF code \notin DOMAIN rooms \/ cid = "" \/ cid \notin DOMAIN rooms[code].players
        THEN emitted' = NoReply /\ UNCHANGED <<rooms, part000Vars>>
        ELSE LET r == [rooms[code] EXCEPT !.players[cid].socketId = conn.sid]
             IN  /\ rooms' = [rooms EXCEPT ![code] = r]
                 /\ emitted' =
                      [message |-> "room:state", to |-> conn.sid, roomCode |-> code,
                       players |-> roomPublicState(r),
                       followedBy |->
                         IF r.game = "mafia"
                           THEN [message |-> "game:launch", to |-> conn.sid,
                                 roomCode |-> code, gameKey |-> "mafia"]
                           ELSE NoReply]
                 /\ UNCHANGED part000Vars

PlayerReadyI(conn, roomCode, ready, clientId) ==
  LET code == normRoom(roomCode)
      cid == pickId(clientId, conn.clientId)
  IN  /\ rooms' = IF code \notin DOMAIN rooms \/ cid = "" \/ cid \notin DOMAIN rooms[code].players
                    THEN rooms
                    ELSE [rooms EXCEPT ![code].players[cid].ready = ready,
                                       ![code].players[cid].socketId = conn.sid]
      /\ emitted' = NoReply
      /\ UNCHANGED part000Vars

PlayerLeaveI(conn, roomCode, clientId) ==
  LET code == normRoom(roomCode)
      cid == pickId(clientId, conn.clientId)
  IN  /\ rooms' = IF code \notin DOMAIN rooms \/ cid = "" THEN rooms
                    ELSE [rooms EXCEPT ![code].players = Remove(@, cid),
                                       ![code].keys = deleteKey(@, cid)]
      /\ emitted' = NoReply
      /\ UNCHANGED part000Vars

\* disconnect: every room the socket created is deleted with 'Host
\* disconnected'; in the other rooms the players bound to the socket keep
\* their entry with an empty socketId
DisconnectI(conn) ==
  LET hosted == {code \in DOMAIN rooms : rooms[code].hostId = conn.sid}
  IN  /\ rooms' = [code \in DOMAIN rooms \ hosted |->
                     [rooms[code] EXCEPT !.players =
                        [cid \in DOMAIN rooms[code].players |->
                           IF rooms[code].players[cid].socketId = conn.sid
                             THEN [rooms[code].players[cid] EXCEPT !.socketId = Gone]
                             ELSE rooms[code].players[cid]]]]
      /\ emitted' = IF hosted = {} THEN NoReply ELSE roomError("Host disconnected")
      /\ UNCHANGED part000Vars

ConnsI == {Conn("a"), Conn("b"), Conn2("a"), Conn("")}

GameKeysI == {"mafia", "quiz"}

\* The environment: the host socket creates the rooms, and the draws of
\* uniqueRoomCode that are followed are those of four characters; the room
\* ABCD is driven with every input, the room WXYZ is joined by the client b.
NextNames ==
  \/ HostCreateRoomI(Conn(HostId)) /\ DOMAIN rooms' \subseteq Codes4I
  \/ \E conn \in {Conn(HostId), Conn("a")} : HostStartGameI(conn, RoomCode)
  \/ \E conn \in {Conn(HostId), Conn("a")}, gameKey \in GameKeysI :
       HostLaunchGameI(conn, RoomCode, gameKey)
  \/ \E conn \in ConnsI, roomCode \in {"ABCD", " ab-cd", ""}, name \in NamesI, clientId \in {"", "c"} :
       PlayerJoinI(conn, roomCode, name, clientId)
  \/ PlayerJoinI(Conn("b"), "WXYZ", "ANN", "")
  \/ \E conn \in ConnsI, roomCode \in CodeInputs : PlayerAttachI(conn, roomCode, "")
  \/ \E conn \in ConnsI, ready \in BOOLEAN : PlayerReadyI(conn, RoomCode, ready, "")
  \/ \E conn \in ConnsI, roomCode \in CodeInputs : PlayerLeaveI(conn, roomCode, "")
  \/ \E conn \in ConnsI \cup {Conn(HostId)} : DisconnectI(conn)

SpecNames == InitNames /\ [][NextNames]_vars

(***************************************************************************)
(* C32: in the implementation of index.js lines 1-609, a player:join whose *)
(* name equals, ignoring case, the name of a player of the room is         *)
(* answered with 'Name already taken' and leaves the player map as it is;  *)
(* so after any sequence of join, attach, ready, leave and disconnect no   *)
(* two players of one room have names equal ignoring case.                 *)
(***************************************************************************)
C32_NamesDistinct ==
  \A code \in DOMAIN rooms :
    \A p, q \in DOMAIN rooms[code].players :
      p # q => toLowerCase(rooms[code].players[p].name)
                 # toLowerCase(rooms[code].players[q].name)

\* No input of player:join whose name is taken in its room can do anything
\* but answer 'Name already taken' and leave the rooms as they are.
C32_TakenNameRejected ==
  \A conn \in ConnsI, roomCode \in CodeInputs, name \in NamesI \ {""}, clientId \in {"", "c"} :
    ( /\ normRoom(roomCode) \in DOMAIN rooms
      /\ pickId(clientId, conn.clientId) # ""
      /\ \E p \in DOMAIN rooms[normRoom(roomCode)].players :
           toLowerCase(rooms[normRoom(roomCode)].players[p].name) = toLowerCase(normName(name)) )
    => ~ENABLED ( /\ PlayerJoinI(conn, roomCode, name, clientId)
                  /\ ~(emitted' = roomError("Name already taken") /\ rooms' = rooms) )

C32_NamesUnique == C32_NamesDistinct /\ C32_TakenNameRejected

\* Ann and Bob are in the room ABCD, Ann's socket is gone, another Ann is in
\* the room WXYZ, and the last join was turned down for its name.
C32_Witness ==
  /\ {RoomCode, "WXYZ"} \subseteq DOMAIN rooms
  /\ Cardinality(DOMAIN rooms[RoomCode].players) >= 2
  /\ \E p \in DOMAIN rooms[RoomCode].players :
       rooms[RoomCode].players[p].name = "Ann" /\ rooms[RoomCode].players[p].socketId = Gone
  /\ \E p \in DOMAIN rooms["WXYZ"].players :
       toLowerCase(rooms["WXYZ"].players[p].name) = "ann"
  /\ emitted = roomError("Name already taken")

(***************************************************************************)
(* SpecNorm: room codes as character sequences; makeRoomCode creates a     *)
(* room and getRoom looks a raw code up                                    *)
(***************************************************************************)
MaxLen == 3

CodeChars == {"A", "2"}

RawChars == {"A", "a", "2", " ", "-"}

RECURSIVE trimLeft(_)
trimLeft(s) == IF s # <<>> /\ Head(s) = " " THEN trimLeft(Tail(s)) ELSE s

RECURSIVE trimRight(_)
trimRight(s) ==
  IF s # <<>> /\ s[Len(s)] = " " THEN trimRight(SubSeq(s, 1, Len(s) - 1)) ELSE s

\* String.prototype.trim
trim(s) == trimRight(trimLeft(s))

\* String.prototype.toUpperCase on the RawChars
toUpperCase(s) == [i \in DOMAIN s |-> IF s[i] = "a" THEN "A" ELSE s[i]]

\* normalizeRoom of the devMode implementation
normalizeRoomA(roomCode) == toUpperCase(trim(roomCode))

RECURSIVE SeqsOf(_, _)
SeqsOf(chars, n) ==
  IF n = 0 THEN {<<>>}
  ELSE {<<c>> \o s : c \in chars, s \in SeqsOf(chars, n - 1)}

\* The codes makeRoomCode(len) can return, over the CodeChars
makeRoomCode(len) == SeqsOf(CodeChars, len)

\* A created code written with spaces around it, in lower case, or with a
\* separator inserted; and a code with a ninth character.
Decorated(code) ==
  { <<" ">> \o code \o <<" ">>,
    [i \in DOMAIN code |-> IF code[i] = "A" THEN "a" ELSE code[i]],
    SubSeq(code, 1, 2) \o <<"-">> \o SubSeq(code, 3, Len(code)),
    code \o code \o <<"A">> }

RawCodes ==
  UNION {SeqsOf(RawChars, n) : n \in 0..MaxLen}
    \cup makeRoomCode(4)
    \cup UNION {Decorated(code) : code \in makeRoomCode(4)}

\* host:createRoom with a code of makeRoomCode(4) that is not in use
CreateRoomA ==
  /\ rooms = EmptyMap
  /\ \E code \in makeRoomCode(4) :
       /\ code \notin DOMAIN rooms
       /\ rooms' = Put(rooms, code, newRoom(Conn(HostId)))
       /\ emitted' = [message |-> "room:created", roomCode |-> code]
  /\ UNCHANGED <<room, registered, hostGoneTimer, staleTimers>>

\* getRoom(codeRaw): { code, room: rooms.get(code) }
getRoom(codeRaw) ==
  LET code == normalizeRoomA(codeRaw)
  IN  [message |-> "getRoom", codeRaw |-> codeRaw, code |-> code,
       found |-> code \in DOMAIN rooms]

LookupRoom ==
  /\ \E codeRaw \in RawCodes : emitted' = getRoom(codeRaw)
  /\ UNCHANGED <<room, lifeVars>>

NextNorm ==
  \/ CreateRoomA
  \/ LookupRoom

SpecNorm == Init /\ [][NextNorm]_vars

(***************************************************************************)
(* C33: the normalization of a looked-up room code trims, upper-cases,     *)
(* removes every character outside A-Z and 0-9 and keeps the first 8       *)
(* characters; it is idempotent, every created code is a fixed point of    *)
(* it, and a lookup with a created code written with spaces around it, in  *)
(* lower case or with a separator inserted finds the room.                 *)
(***************************************************************************)
Alphanumeric(c) == c \in {"A", "2"}

Normalized(s) ==
  LET kept == SelectSeq(toUpperCase(trim(s)), Alphanumeric)
  IN  SubSeq(kept, 1, IF Len(kept) < 8 THEN Len(kept) ELSE 8)

C33_LookupNormalizes ==
  /\ \A code \in DOMAIN rooms : normalizeRoomA(code) = code
  /\ emitted.message = "getRoom" =>
       /\ emitted.code = Normalized(emitted.codeRaw)
       /\ normalizeRoomA(emitted.code) = emitted.code
       /\ emitted.found = (Normalized(emitted.codeRaw) \in DOMAIN rooms)

\* The room A2A2 exists and the lookup of A2-A2 did not find it.
C33_Witness ==
  /\ DOMAIN rooms = {<<"A", "2", "A", "2">>}
  /\ emitted.message = "getRoom"
  /\ emitted.codeRaw = <<"A", "2", "-", "A", "2">>
  /\ emitted.code = <<"A", "2", "-", "A", "2">>
  /\ ~emitted.found

(***************************************************************************)
(* C34: in every view of a started game the alive roster lists exactly the *)
(* identities of the game's alive map, each with its alive flag: a player  *)
(* who joined after the start is not listed, and a participant who left    *)
(* or disconnected is still listed.                                        *)
(***************************************************************************)
C34_RosterIsAliveMap ==
  mafia.started =>
    \A viewerClientId \in Viewers :
      LET roster == mafiaPublicState(mafia, viewerClientId).alive
      IN  /\ {roster[i].clientId : i \in DOMAIN roster} = DOMAIN mafia.alive
          /\ \A i \in DOMAIN roster : roster[i].alive = mafia.alive[roster[i].clientId]

\* Participant a has left and d has joined during the game: the roster of
\* the view lists d, as not alive, and does not list a, who is alive.
C34_Witness ==
  /\ mafia.started /\ mafia.winnerTeam = Null
  /\ IsAlive(mafia, "a") /\ "d" \notin DOMAIN mafia.alive
  /\ LET roster == mafiaPublicState(mafia, "b").alive
     IN  /\ \A i \in DOMAIN roster : roster[i].clientId # "a"
         /\ \E i \in DOMAIN roster : roster[i].clientId = "d" /\ ~roster[i].alive

(***************************************************************************)
(* C35: within one game instance the phase changes only from role to       *)
(* night, from night to day and from day to night; it does not change      *)
(* while winnerTeam is set; round is 1 at the start, never decreases and   *)
(* grows by exactly 1 on each change from day to night and on no other     *)
(* step.                                                                   *)
(***************************************************************************)
PhaseOrder == {<<"role", "night">>, <<"night", "day">>, <<"day", "night">>}

\* The step is a mafia:start that dealt a new game instance.
NewInstance == mafia'.started /\ mafia'.phase = "role" /\ mafia'.round = 1 /\ Start

C35_InstanceStep ==
  /\ (mafia.started /\ mafia'.started /\ ~NewInstance) =>
       /\ mafia'.phase # mafia.phase => <<mafia.phase, mafia'.phase>> \in PhaseOrder
       /\ mafia.winnerTeam # Null => mafia'.phase = mafia.phase
       /\ mafia'.round =
            IF mafia.phase = "day" /\ mafia'.phase = "night"
              THEN mafia.round + 1 ELSE mafia.round
  /\ (~mafia.started /\ mafia'.started) => mafia'.phase = "role" /\ mafia'.round = 1

C35_RoundAtLeastOne ==
  mafia.started => mafia.round >= 1 /\ (mafia.phase = "role" => mafia.round = 1)

C35_PhaseOrder == [](C35_RoundAtLeastOne) /\ [][C35_InstanceStep]_vars

\* The second night of an undecided game, begun by a day resolution.
C35_Witness ==
  /\ mafia.started /\ mafia.winnerTeam = Null
  /\ mafia.phase = "night" /\ mafia.round = 2
  /\ mafia.lastResult.type = "day"
  /\ Cardinality(alivePlayers(mafia)) = 3

(***************************************************************************)
(* C36: in every reachable state of a started game whose winnerTeam is     *)
(* null, at least one mafia is alive and the alive mafia are fewer than    *)
(* the alive players of the other roles.                                   *)
(***************************************************************************)
MafiaOutnumbered(m) ==
  LET mafiaAlive == {cid \in alivePlayers(m) : m.assignments[cid] = "mafia"}
      townAlive == {cid \in alivePlayers(m) : m.assignments[cid] # "mafia"}
  IN  Cardinality(mafiaAlive) >= 1 /\ Cardinality(mafiaAlive) < Cardinality(townAlive)

C36_AlwaysOutnumbered ==
  (mafia.started /\ mafia.winnerTeam = Null) => MafiaOutnumbered(mafia)

(***************************************************************************)
(* C36, as the code has it: the win condition is evaluated by the night    *)
(* resolution, the day resolution and mafia:toggleAlive, so a step of      *)
(* these that leaves winnerTeam null leaves at least one mafia alive and   *)
(* fewer alive mafia than other alive players; a mafia:start with three    *)
(* or more players deals such a game.  mafia:start with two players and    *)
(* mafia:setRole do not evaluate the win condition.                        *)
(***************************************************************************)
WinEvaluated ==
  /\ mafia.started /\ mafia'.started /\ ~NewInstance
  /\ \/ mafia'.alive # mafia.alive
     \/ mafia.phase = "night" /\ mafia'.phase = "day"
     \/ mafia.phase = "day" /\ mafia'.phase = "night"

C36_Step ==
  /\ (WinEvaluated /\ mafia'.winnerTeam = Null) => MafiaOutnumbered(mafia')
  /\ (NewInstance /\ Cardinality(DOMAIN mafia'.alive) >= 3)
       => mafia'.winnerTeam = Null /\ MafiaOutnumbered(mafia')

C36_OutnumberedWhenEvaluated == [][C36_Step]_vars

\* The first day of a game of three, after a night resolution that left
\* the winner undecided.
C36_Witness ==
  /\ mafia.started /\ mafia.winnerTeam = Null
  /\ mafia.phase = "day" /\ mafia.round = 1
  /\ mafia.lastResult.type = "night"
  /\ Cardinality(alivePlayers(mafia)) = 3
  /\ MafiaOutnumbered(mafia)

(***************************************************************************)
(* SpecAlive: a started game of three under the events of the players      *)
(* (join, leave, attach, disconnect, night action, vote) and of the host   *)
(***************************************************************************)
NextAlive ==
  \/ mafia.started /\ Join(KeyIds, {"Ann"}) /\ UNCHANGED lifeVars
  \/ mafia.started /\ Leave(KeyIds) /\ UNCHANGED lifeVars
  \/ mafia.started /\ AttachPlayer /\ UNCHANGED lifeVars
  \/ mafia.started /\ Drop({"a"}) /\ UNCHANGED lifeVars
  \/ GuestSetDevMode /\ UNCHANGED lifeVars
  \/ ~mafia.started /\ Start /\ UNCHANGED lifeVars
  \/ Advance(MaxRound) /\ UNCHANGED lifeVars
  \/ ForceNight(MaxRound) /\ UNCHANGED lifeVars
  \/ ForceDay(MaxRound) /\ UNCHANGED lifeVars
  \/ NightAction(OwnConns(KeyIds \cup {"b"}), {"kill", "save"}, KeyIds, MaxRound) /\ UNCHANGED lifeVars
  \/ Vote(OwnConns(KeyIds \cup {"b"}), KeyIds, MaxRound) /\ UNCHANGED lifeVars
  \/ SetRole(KeyIds, {" Mafia "}, MaxRound) /\ UNCHANGED lifeVars
  \/ ToggleAlive(KeyIds, MaxRound) /\ UNCHANGED lifeVars

SpecAlive == InitLife /\ [][NextAlive]_vars

(***************************************************************************)
(* C37: apart from mafia:toggleAlive and a new mafia:start, alive flags    *)
(* only go from true to false: a night or day resolution turns at most     *)
(* one player dead, and no other event changes an alive flag.              *)
(***************************************************************************)
Resolution ==
  \E conn \in HostConns :
    MafiaNext(conn) \/ MafiaForceResolveNight(conn) \/ MafiaForceResolveDay(conn)

C37_AliveStep ==
  (mafia.started /\ mafia'.started /\ ~ToggleAlive(KeyIds, MaxRound)) =>
    /\ DOMAIN mafia'.alive = DOMAIN mafia.alive
    /\ \A cid \in DOMAIN mafia.alive : mafia'.alive[cid] => mafia.alive[cid]
    /\ Cardinality({cid \in DOMAIN mafia.alive : mafia.alive[cid] /\ ~mafia'.alive[cid]}) <= 1
    /\ mafia'.alive # mafia.alive => Resolution /\ mafia.phase \in {"night", "day"}

C37_AliveOnlyFalls == [][C37_AliveStep]_vars

\* Player a left the room during the game and was then turned dead by the
\* night resolution; the other two participants are alive.
C37_Witness ==
  /\ mafia.started /\ "a" \notin DOMAIN players
  /\ mafia.lastResult.type = "night"
  /\ mafia.lastResult.died.clientId = "a"
  /\ alivePlayers(mafia) = {"b", "c"}

(***************************************************************************)
(* SpecStale: the grace-timer room ABCD, its 90 s timer and the rooms that *)
(* host:createRoom adds to the rooms map                                   *)
(***************************************************************************)
NextStale ==
  \/ StartT /\ UNCHANGED lifeVars
  \/ registered /\ AdvanceG /\ UNCHANGED lifeVars
  \/ SetGameT
  \/ AttachT
  \/ DropT
  \/ \E conn \in {Conn2(HostId), Conn("a"), Conn("")} : HostCreateRoomG(conn)
  \/ HostGoneTimeout
  \/ RoomTimeoutT
  \/ StaleTimeoutT
  \/ StartOtherT

SpecStale == InitG /\ [][NextStale]_vars

(***************************************************************************)
(* C38: the host-absence timer removes only the room whose host            *)
(* disconnected: when host:createRoom has deleted that room while the      *)
(* timer was pending, the expiry of the timer removes no room that exists  *)
(* then, also when a new room has received the same code.                  *)
(***************************************************************************)
C38_StaleTimerRemovesNothing == [][HostGoneTimeout => rooms' = rooms]_vars

\* The host has created a new room while the timer of room ABCD was
\* pending; room ABCD is deleted and the new room has the code ABCD.
C38_Witness ==
  /\ ~registered /\ hostGoneTimer = "pending"
  /\ RoomCode \in DOMAIN rooms
  /\ rooms[RoomCode].hostClientId = HostId
  /\ rooms[RoomCode].hostSocketId = Conn2(HostId).sid

(***************************************************************************)
(* C39: a mafia:start of the host while a game is started and undecided    *)
(* does not replace it: roles, alive flags, phase, round, night            *)
(* selections and votes are preserved.                                     *)
(***************************************************************************)
Running == mafia.started /\ mafia.winnerTeam = Null

C39_StartKeepsRunningGame ==
  [][ \A conn \in HostConns : (Running /\ MafiaStart(conn)) => mafia' = mafia ]_vars

(***************************************************************************)
(* C39, as the code has it: a mafia:start of the host while a game is      *)
(* started and undecided, in a room with the minimum number of players,    *)
(* deals a new game over the players now in the room: phase role, round    *)
(* 1, everybody alive, no selections, no votes, no result; only a          *)
(* mafia:start of the host takes a running game back to phase role.        *)
(***************************************************************************)
FreshGame(m) ==
  /\ m.started /\ m.phase = "role" /\ m.round = 1 /\ m.winnerTeam = Null
  /\ DOMAIN m.assignments = DOMAIN players
  /\ m.alive = [p \in DOMAIN players |-> TRUE]
  /\ m.night = NightLeft.night /\ m.day = NightLeft.day
  /\ m.lastResult = NoResult

C39_RestartDealsAnew ==
  (Running /\ Cardinality(DOMAIN players) >= minPlayers) =>
    /\ startMafiaGame # {}
    /\ \A game \in startMafiaGame : FreshGame(game)

C39_GuestStartStep ==
  (Running /\ mafia' # mafia /\ mafia'.started /\ mafia'.phase = "role" /\ mafia.phase # "role")
    => \E conn \in HostConns : isHost(conn) /\ MafiaStart(conn)

C39_StartReplacesRunningGame == [](C39_RestartDealsAnew) /\ [][C39_GuestStartStep]_vars

\* A running game of two in its first night with the kill recorded, in a
\* room that a third player joined after the start: a new mafia:start
\* deals him in.
C39_Witness ==
  /\ Running /\ mafia.phase = "night"
  /\ hub.history = <<>>
  /\ mafia.night.mafiaKill # Null
  /\ DOMAIN mafia.alive = {"a", "b"}
  /\ DOMAIN players = {"a", "b", "c"}
  /\ \A game \in startMafiaGame : DOMAIN game.alive = {"a", "b", "c"}

(***************************************************************************)
(* C40: only the members of the room act in the game: after player:leave   *)
(* has removed an identity from the player map during a started game, a    *)
(* mafia:nightAction or mafia:vote in the name of that identity changes    *)
(* neither the night selections nor the votes.                             *)
(***************************************************************************)
C40_LeaverStep ==
  \A actor \in OwnConns(KeyIds \cup {"b"}) :
    ( /\ mafia.started
      /\ actor[1].clientId \notin DOMAIN players
      /\ \/ \E action \in {"kill", "check"}, targetId \in KeyIds :
              MafiaNightAction(actor[1], actor[2], action, targetId)
         \/ \E targetId \in KeyIds : MafiaVote(actor[1], actor[2], targetId) )
    => mafia'.night = mafia.night /\ mafia'.day = mafia.day

C40_LeaverCannotAct == [][C40_LeaverStep]_vars

\* Player a has left the room; a vote of a is recorded in the running day.
C40_Witness ==
  /\ mafia.started /\ mafia.winnerTeam = Null /\ mafia.phase = "day"
  /\ "a" \notin DOMAIN players
  /\ "a" \in DOMAIN mafia.day.votes
  /\ \A v \in DOMAIN mafia.day.votes : v = "a"

====
